---- MODULE Spec2Model ----
(***************************************************************************)
(* The claim engine of runmachine-io/resource-prototyping: the placement   *)
(* planner (process_claim_request and the constraint matcher) and the      *)
(* claim executor (execute), over the relational store they read and       *)
(* write.  Tables are sequences or sets of rows; a transaction's writes    *)
(* are kept with the transaction until it commits.                         *)
(***************************************************************************)
EXTENDS Integers, Sequences, FiniteSets, TLC

\* ------------------------------------------------------------------ bounds
NumProviders == 2
NumClaimants == 2
MaxAdminOps == 1

\* ------------------------------------------------------- program constants
UNLIMITED == 0 - 1
DefaultLimit == 50
ConsumerGeneration == 1

Providers == 1..NumProviders
Claimants == 1..NumClaimants

NULL == 0

\* catalogs: code -> internal id
capabilities == [c1 |-> 1, c2 |-> 2]
resource_types == [cpu |-> 1, mem |-> 2]

SeqToSet(s) == {s[i] : i \in 1..Len(s)}

VARIABLES
    generation,              \* providers.generation, by provider id
    provider_capabilities,   \* set of <<provider_id, capability_id>>
    inventories,             \* set of inventory rows
    allocations,             \* committed rows of allocations
    allocation_items,        \* committed rows of allocation_items (a sequence)
    consumers,               \* committed rows of consumers (a sequence)
    object_names,            \* committed rows of object_names (a sequence)
    next_id,                 \* auto-increment counters of allocations, consumers
    request,                 \* each claimant's ClaimRequest
    consumer_id,             \* each claimant's Consumer.id (in process)
    pc,                      \* each claimant's position
    plan,                    \* each claimant's planner state
    txn,                     \* each claimant's transaction state
    admin_ops,               \* inventory changes made by the administrator
    lookup                   \* a process's catalog caches and the queries made for them

vars == <<generation, provider_capabilities, inventories, allocations,
          allocation_items, consumers, object_names, next_id, request,
          consumer_id, pc, plan, txn, admin_ops, lookup>>

store == <<generation, provider_capabilities, inventories, allocations,
           allocation_items, consumers, object_names>>

\* the ids of the rows of the providers table
provider_rows == DOMAIN generation

\* ------------------------------------------------------------ the catalog
\* NULL when the code has no row in its catalog table (the caller then raises)
cap_id_from_code(cap) ==
    IF cap \in DOMAIN capabilities THEN capabilities[cap] ELSE NULL

rt_id_from_code(resource_type) ==
    IF resource_type \in DOMAIN resource_types
    THEN resource_types[resource_type] ELSE NULL

cap_ids(caps) == {cap_id_from_code(caps[i]) : i \in 1..Len(caps)}

UnknownCap(caps) == \E i \in 1..Len(caps) : cap_id_from_code(caps[i]) = NULL

\* ------------------------------------------------------- capability queries
RECURSIVE SubsetsOfSize(_, _)
\* the subsets of S that have k elements
SubsetsOfSize(S, k) ==
    IF k = 0 THEN {{}}
    ELSE IF S = {} THEN {}
    ELSE LET x == CHOOSE y \in S : TRUE
         IN  {t \cup {x} : t \in SubsetsOfSize(S \ {x}, k - 1)}
             \cup SubsetsOfSize(S \ {x}, k)

\* The rows a query returns under a LIMIT: every row when the limit is not
\* reached, otherwise some `limit` of them (the statement has no ORDER BY).
LimitRows(rows, limit) ==
    IF limit = UNLIMITED \/ Cardinality(rows) <= limit
    THEN {rows}
    ELSE {rows \ cut : cut \in SubsetsOfSize(rows, Cardinality(rows) - limit)}

\* the query without its HAVING clause: the providers with some of the caps
find_providers_with_some_caps(caps, limit) ==
    LET ids == cap_ids(caps)
        count(p) == Cardinality({pc_row \in provider_capabilities :
                                   pc_row[1] = p /\ pc_row[2] \in ids})
        rows == {p \in provider_rows : count(p) > 0}
    IN  LimitRows(rows, limit)

find_providers_with_all_caps(caps, limit) ==
    LET ids == cap_ids(caps)
        count(p) == Cardinality({pc_row \in provider_capabilities :
                                   pc_row[1] = p /\ pc_row[2] \in ids})
        rows == {p \in provider_rows : count(p) > 0 /\ count(p) = Len(caps)}
    IN  LimitRows(rows, limit)

find_providers_with_any_caps(caps, limit) ==
    LET ids == cap_ids(caps)
        rows == {pc_row \in provider_capabilities : pc_row[2] \in ids}
    IN  {{r[1] : r \in t} : t \in LimitRows(rows, limit)}

NoMatches == [kind |-> "NoMatches", matches |-> {}, exclude |-> {}, excludes |-> {}]
NoExclude == [kind |-> "NoExclude", matches |-> {}, exclude |-> {}, excludes |-> {}]

\* a forbid list that matches no provider, taken as a failure to match
forbid_only_is_no_match == NoMatches

\* what a constraint with only a forbid list returns when no provider carries
\* a forbidden capability
forbid_only_without_matches == NoExclude

\* the result of a capability constraint whose forbid list is not subtracted
\* from the providers its require and any lists matched
ConstraintMatchResult_forbid_kept(cc, required, anyp, forbidden) ==
    LET hasReq == Len(cc.require_caps) > 0
        hasAny == Len(cc.any_caps) > 0
        m1 == IF hasReq THEN required ELSE {}
        m2 == IF hasAny THEN (IF m1 # {} THEN m1 \cap anyp ELSE anyp) ELSE m1
    IN  IF hasReq /\ required = {} THEN NoMatches
        ELSE IF hasAny /\ anyp = {} THEN NoMatches
        ELSE IF hasAny /\ m1 # {} /\ m2 = {} THEN NoMatches
        ELSE IF ~hasReq /\ ~hasAny /\ forbidden = {} THEN NoExclude
        ELSE [kind |-> "result", matches |-> m2, exclude |-> {}, excludes |-> {}]

\* The result of one capability constraint, given the rows its three queries
\* returned (a query that is not issued contributes the empty set).
ConstraintMatchResult(cc, required, anyp, forbidden) ==
    LET hasReq == Len(cc.require_caps) > 0
        hasAny == Len(cc.any_caps) > 0
        hasForbid == Len(cc.forbid_caps) > 0
        m1 == IF hasReq THEN required ELSE {}
        m2 == IF hasAny THEN (IF m1 # {} THEN m1 \cap anyp ELSE anyp) ELSE m1
        m3 == IF hasForbid /\ forbidden # {} /\ m2 # {} THEN m2 \ forbidden ELSE m2
        cap_providers == (IF hasReq THEN required ELSE {})
                         \cup (IF hasAny THEN anyp ELSE {})
    IN  IF hasReq /\ required = {} THEN NoMatches
        ELSE IF hasAny /\ anyp = {} THEN NoMatches
        ELSE IF hasAny /\ m1 # {} /\ m2 = {} THEN NoMatches
        ELSE IF hasForbid /\ forbidden # {} /\ m2 # {} /\ m3 = {} THEN NoMatches
        ELSE IF hasForbid /\ forbidden = {} /\ ~hasReq /\ ~hasAny
        THEN forbid_only_without_matches
        ELSE [kind |-> "result",
              matches |-> cap_providers \cap m3,
              exclude |-> {},
              excludes |-> IF hasForbid /\ forbidden # {} /\ m2 = {}
                           THEN forbidden ELSE {}]

\* a constraint whose forbid query is cut to the default number of rows
providers_matching_capability_constraint_limited(cc) ==
    LET reqs == IF Len(cc.require_caps) > 0
                THEN find_providers_with_all_caps(cc.require_caps, DefaultLimit)
                ELSE {{}}
        anys == IF Len(cc.any_caps) > 0
                THEN find_providers_with_any_caps(cc.any_caps, DefaultLimit)
                ELSE {{}}
        forbids == IF Len(cc.forbid_caps) > 0
                   THEN find_providers_with_any_caps(cc.forbid_caps, DefaultLimit)
                   ELSE {{}}
    IN  {ConstraintMatchResult(cc, r, a, f) : r \in reqs, a \in anys, f \in forbids}

\* Every result the constraint can have (one per choice of limited rows).
providers_matching_capability_constraint(cc) ==
    LET reqs == IF Len(cc.require_caps) > 0
                THEN find_providers_with_all_caps(cc.require_caps, DefaultLimit)
                ELSE {{}}
        anys == IF Len(cc.any_caps) > 0
                THEN find_providers_with_any_caps(cc.any_caps, DefaultLimit)
                ELSE {{}}
        forbids == IF Len(cc.forbid_caps) > 0
                   THEN find_providers_with_any_caps(cc.forbid_caps, UNLIMITED)
                   ELSE {{}}
    IN  {ConstraintMatchResult(cc, r, a, f) : r \in reqs, a \in anys, f \in forbids}

\* --------------------------------------------------- the capacity query
\* SELECT id FROM allocations WHERE acquire_time >= :acquire AND release_time < :release
allocs_in_window(acquire_time, release_time) ==
    {a.id : a \in {x \in allocations : x.acquire_time >= acquire_time
                                       /\ x.release_time < release_time}}

\* allocation_items LEFT OUTER JOIN allocs_in_window: one row per allocation
\* item, with the window's allocation id or NULL beside it.
alloc_item_to_alloc_window(acquire_time, release_time) ==
    [i \in 1..Len(allocation_items) |->
        [ai |-> allocation_items[i],
         allocation_id |->
            IF allocation_items[i].allocation_id
                 \in allocs_in_window(acquire_time, release_time)
            THEN allocation_items[i].allocation_id ELSE NULL]]

RECURSIVE SumUsed(_, _, _, _)
SumUsed(rows, p, rt_id, n) ==
    IF n = 0 THEN 0
    ELSE SumUsed(rows, p, rt_id, n - 1)
         + (IF rows[n].ai.provider_id = p /\ rows[n].ai.resource_type_id = rt_id
            THEN rows[n].ai.used ELSE 0)

\* COALESCE(usages.total_used, 0) of (provider, resource type)
total_used(acquire_time, release_time, p, rt_id) ==
    LET rows == alloc_item_to_alloc_window(acquire_time, release_time)
    IN  SumUsed(rows, p, rt_id, Len(rows))

capacity(inv) == (inv.total - inv.reserved) * inv.allocation_ratio

\* the unit conditions without the step size
unit_discipline_without_step(inv, amount) ==
    /\ inv.min_unit <= amount
    /\ inv.max_unit >= amount

\* the unit conditions of the capacity query's WHERE clause
unit_discipline(inv, amount) ==
    /\ inv.min_unit <= amount
    /\ inv.max_unit >= amount
    /\ amount % inv.step_size = 0

\* the providers the join with provider_capabilities keeps
select_add_capability_constraint(cc) ==
    IF Len(cc.require_caps) = 0 THEN provider_rows
    ELSE IF Len(cc.require_caps) = 1
    THEN {p \in provider_rows :
            <<p, cap_id_from_code(cc.require_caps[1])>> \in provider_capabilities}
    ELSE {p \in provider_rows :
            Cardinality({pc_row \in provider_capabilities :
                           pc_row[1] = p /\ pc_row[2] \in cap_ids(cc.require_caps)})
              = Len(cc.require_caps)}

\* the exception the capacity query raises before it reaches the store
resource_query_error(rc) ==
    IF rt_id_from_code(rc.resource_type) = NULL THEN "ValueError"
    ELSE IF ~rc.capability_constraint.present THEN "ok"
    ELSE IF UnknownCap(rc.capability_constraint.require_caps) THEN "ValueError"
    ELSE IF Len(rc.capability_constraint.forbid_caps) > 0
            \/ Len(rc.capability_constraint.any_caps) > 0 THEN "NameError"
    ELSE "ok"

\* the capacity query with an inner join to the usages: a provider without
\* a usage row is dropped
find_providers_with_resource_inner_join(acquire_time, release_time, rc, exclude, limit) ==
    LET rt_id == rt_id_from_code(rc.resource_type)
        rows == {p \in provider_rows :
                   /\ \E i \in 1..Len(allocation_items) :
                        /\ allocation_items[i].provider_id = p
                        /\ allocation_items[i].resource_type_id = rt_id
                   /\ \E inv \in inventories :
                        /\ inv.provider_id = p
                        /\ inv.resource_type_id = rt_id
                        /\ capacity(inv) >= rc.max_amount
                             + total_used(acquire_time, release_time, p, rt_id)
                        /\ unit_discipline(inv, rc.max_amount)
                   /\ (exclude # {} => p \notin exclude)}
    IN  LimitRows(rows, limit)

\* a capacity query that compares the capacity with the requested amount
\* alone, leaving the usage out
find_providers_with_resource_without_usage(acquire_time, release_time, rc, exclude, limit) ==
    LET rt_id == rt_id_from_code(rc.resource_type)
        join_to == IF rc.capability_constraint.present
                   THEN select_add_capability_constraint(rc.capability_constraint)
                   ELSE provider_rows
        rows == {p \in join_to :
                   /\ \E inv \in inventories :
                        /\ inv.provider_id = p
                        /\ inv.resource_type_id = rt_id
                        /\ capacity(inv) >= rc.max_amount
                        /\ unit_discipline(inv, rc.max_amount)
                   /\ (exclude # {} => p \notin exclude)}
    IN  LimitRows(rows, limit)

find_providers_with_resource(acquire_time, release_time, rc, exclude, limit) ==
    LET rt_id == rt_id_from_code(rc.resource_type)
        join_to == IF rc.capability_constraint.present
                   THEN select_add_capability_constraint(rc.capability_constraint)
                   ELSE provider_rows
        rows == {p \in join_to :
                   /\ \E inv \in inventories :
                        /\ inv.provider_id = p
                        /\ inv.resource_type_id = rt_id
                        /\ capacity(inv) >= rc.max_amount
                             + total_used(acquire_time, release_time, p, rt_id)
                        /\ unit_discipline(inv, rc.max_amount)
                   /\ (exclude # {} => p \notin exclude)}
    IN  LimitRows(rows, limit)

\* ------------------------------------------------------------ MatchContext
MatchContext == [started_filtering |-> FALSE, matches |-> {}, exclude |-> {}]

\* a match context that keeps only the matches of the last constraint
match_or_last_wins(mctx, new_matches) ==
    [mctx EXCEPT !.matches = new_matches, !.started_filtering = TRUE]

\* a match_or whose first call keeps the matches and leaves the latch unset
match_or_unlatched(mctx, new_matches) ==
    IF mctx.started_filtering
    THEN [mctx EXCEPT !.matches = mctx.matches \cup new_matches]
    ELSE [mctx EXCEPT !.matches = new_matches]

match_or(mctx, new_matches) ==
    IF mctx.started_filtering
    THEN [mctx EXCEPT !.matches = mctx.matches \cup new_matches]
    ELSE [mctx EXCEPT !.matches = new_matches, !.started_filtering = TRUE]

\* a match context that adds the new matches to the ones it has
match_and_by_union(mctx, new_matches) ==
    [mctx EXCEPT !.matches = mctx.matches \cup new_matches, !.started_filtering = TRUE]

match_and(mctx, new_matches) ==
    IF mctx.started_filtering
    THEN [mctx EXCEPT !.matches = mctx.matches \cap new_matches]
    ELSE [mctx EXCEPT !.matches = new_matches, !.started_filtering = TRUE]

\* what match_or and match_and return, given the context they leave and
\* their argument: len(self.matches) > 0
match_returns(mctx, new_matches) == Cardinality(mctx.matches) > 0

exclude_or(mctx, new_exclude) ==
    [mctx EXCEPT !.exclude = mctx.exclude \cup new_exclude]

\* ------------------------------------------------------------ the planner
Groups(c) == request[c].request_groups
\* the request group being matched (group_index counts from 0)
Group(c) == Groups(c)[plan[c].group_index + 1]

\* where the matcher starts on group g of a request: the capability pass, the
\* resource pass when the group has no capability constraints, the selection
\* when it has no resource constraints either; "planned" after the last group
GroupEntry(groups, g) ==
    IF g >= Len(groups) THEN "planned"
    ELSE IF Len(groups[g + 1].capability_constraints) > 0 THEN "caps"
    ELSE IF Len(groups[g + 1].resource_constraints) > 0 THEN "resources"
    ELSE "select"

\* the planner moves to the next group, with a fresh MatchContext
NextGroup(c, items, map) ==
    /\ plan' = [plan EXCEPT ![c] =
                  [group_index |-> plan[c].group_index + 1,
                   index |-> 1,
                   mctx |-> MatchContext,
                   alloc_items |-> items,
                   item_to_group_map |-> map,
                   error |-> "ok"]]
    /\ pc' = [pc EXCEPT ![c] = GroupEntry(Groups(c), plan[c].group_index + 1)]

PlanRaises(c, err) ==
    /\ plan' = [plan EXCEPT ![c].error = err]
    /\ pc' = [pc EXCEPT ![c] = "plan_error"]

\* the exception raised while the constraint's queries are built, if any
capability_constraint_error(cc) ==
    IF Len(cc.require_caps) > 0 /\ UnknownCap(cc.require_caps) THEN "ValueError"
    ELSE IF Len(cc.require_caps) > 0
            /\ find_providers_with_all_caps(cc.require_caps, UNLIMITED) = {{}}
    THEN "ok"
    ELSE IF Len(cc.any_caps) > 0 /\ UnknownCap(cc.any_caps) THEN "ValueError"
    ELSE IF Len(cc.any_caps) > 0
            /\ find_providers_with_any_caps(cc.any_caps, UNLIMITED) = {{}}
    THEN "ok"
    ELSE IF Len(cc.any_caps) > 0 /\ Len(cc.require_caps) > 0
            /\ \A r \in find_providers_with_all_caps(cc.require_caps, UNLIMITED) :
                 \A a \in find_providers_with_any_caps(cc.any_caps, UNLIMITED) :
                    r \cap a = {}
    THEN "ok"
    ELSE IF Len(cc.forbid_caps) > 0 /\ UnknownCap(cc.forbid_caps) THEN "ValueError"
    ELSE "ok"

\* a capability pass that goes on to the next constraint after NoMatches
process_capability_constraints_past_miss(c) ==
    /\ pc[c] = "caps"
    /\ LET cc == Group(c).capability_constraints[plan[c].index]
           last == plan[c].index = Len(Group(c).capability_constraints)
           after == IF ~last THEN "caps"
                    ELSE IF Len(Group(c).resource_constraints) > 0 THEN "resources"
                    ELSE "select"
           continue(mctx) ==
               /\ plan' = [plan EXCEPT ![c].mctx = mctx, ![c].index = IF last THEN 1 ELSE @ + 1]
               /\ pc' = [pc EXCEPT ![c] = after]
       IN  IF Len(cc.require_caps) = 0 /\ Len(cc.forbid_caps) = 0 /\ Len(cc.any_caps) = 0
           THEN continue(plan[c].mctx)
           ELSE IF capability_constraint_error(cc) # "ok"
           THEN PlanRaises(c, capability_constraint_error(cc))
           ELSE \E res \in providers_matching_capability_constraint(cc) :
                  IF res = NoMatches \/ res = NoExclude
                  THEN continue(plan[c].mctx)
                  ELSE LET m1 == IF res.exclude # {}
                                 THEN exclude_or(plan[c].mctx, res.exclude)
                                 ELSE plan[c].mctx
                           m2 == IF res.matches # {}
                                 THEN match_or(m1, res.matches) ELSE m1
                       IN  continue(m2)
    /\ UNCHANGED <<store, next_id, request, consumer_id, txn, admin_ops, lookup>>

\* one iteration of the loop of _process_capability_constraints
process_capability_constraints(c) ==
    /\ pc[c] = "caps"
    /\ LET cc == Group(c).capability_constraints[plan[c].index]
           last == plan[c].index = Len(Group(c).capability_constraints)
           after == IF ~last THEN "caps"
                    ELSE IF Len(Group(c).resource_constraints) > 0 THEN "resources"
                    ELSE "select"
           continue(mctx) ==
               /\ plan' = [plan EXCEPT ![c].mctx = mctx, ![c].index = IF last THEN 1 ELSE @ + 1]
               /\ pc' = [pc EXCEPT ![c] = after]
       IN  IF Len(cc.require_caps) = 0 /\ Len(cc.forbid_caps) = 0 /\ Len(cc.any_caps) = 0
           THEN continue(plan[c].mctx)
           ELSE IF capability_constraint_error(cc) # "ok"
           THEN PlanRaises(c, capability_constraint_error(cc))
           ELSE \E res \in providers_matching_capability_constraint(cc) :
                  IF res = NoMatches
                  THEN NextGroup(c, plan[c].alloc_items, plan[c].item_to_group_map)
                  ELSE IF res = NoExclude
                  THEN continue(plan[c].mctx)
                  ELSE LET m1 == IF res.exclude # {}
                                 THEN exclude_or(plan[c].mctx, res.exclude)
                                 ELSE plan[c].mctx
                           m2 == IF res.matches # {}
                                 THEN match_or(m1, res.matches) ELSE m1
                       IN  continue(m2)
    /\ UNCHANGED <<store, next_id, request, consumer_id, txn, admin_ops, lookup>>

\* a resource pass that hands the group to the capability pass when it ends
process_resource_constraints_before_caps(c) ==
    /\ pc[c] = "resources"
    /\ LET rc == Group(c).resource_constraints[plan[c].index]
           last == plan[c].index = Len(Group(c).resource_constraints)
           after == IF ~last THEN "resources"
                    ELSE IF Len(Group(c).capability_constraints) > 0 THEN "caps"
                    ELSE "select"
       IN  IF resource_query_error(rc) # "ok"
           THEN PlanRaises(c, resource_query_error(rc))
           ELSE \E providers \in find_providers_with_resource(
                                   request[c].acquire_time, request[c].release_time,
                                   rc, plan[c].mctx.exclude, DefaultLimit) :
                  LET mctx == match_and(plan[c].mctx, providers)
                  IN  IF mctx.matches = {}
                      THEN NextGroup(c, plan[c].alloc_items, plan[c].item_to_group_map)
                      ELSE /\ plan' = [plan EXCEPT ![c].mctx = mctx,
                                                   ![c].index = IF last THEN 1 ELSE @ + 1]
                           /\ pc' = [pc EXCEPT ![c] = after]
    /\ UNCHANGED <<store, next_id, request, consumer_id, txn, admin_ops, lookup>>

\* one iteration of the loop of _process_resource_constraints
process_resource_constraints(c) ==
    /\ pc[c] = "resources"
    /\ LET rc == Group(c).resource_constraints[plan[c].index]
           last == plan[c].index = Len(Group(c).resource_constraints)
       IN  IF resource_query_error(rc) # "ok"
           THEN PlanRaises(c, resource_query_error(rc))
           ELSE \E providers \in find_providers_with_resource(
                                   request[c].acquire_time, request[c].release_time,
                                   rc, plan[c].mctx.exclude, DefaultLimit) :
                  LET mctx == match_and(plan[c].mctx, providers)
                  IN  IF mctx.matches = {}
                      THEN NextGroup(c, plan[c].alloc_items, plan[c].item_to_group_map)
                      ELSE /\ plan' = [plan EXCEPT ![c].mctx = mctx,
                                                   ![c].index = IF last THEN 1 ELSE @ + 1]
                           /\ pc' = [pc EXCEPT ![c] = IF last THEN "select" ELSE "resources"]
    /\ UNCHANGED <<store, next_id, request, consumer_id, txn, admin_ops, lookup>>

AllocationItem(provider, rc) ==
    [provider |-> provider, resource_type |-> rc.resource_type, used |-> rc.max_amount]

\* the group's items taken from the last resource constraint to the first
group_alloc_items_reversed(chosen, rcs) ==
    [i \in 1..Len(rcs) |-> AllocationItem(chosen, rcs[Len(rcs) + 1 - i])]

group_alloc_items(chosen, rcs) ==
    [i \in 1..Len(rcs) |-> AllocationItem(chosen, rcs[i])]

\* a map that records the number of groups seen so far, not the group's index
extend_group_map_by_count(map, n, group_index) ==
    [i \in (DOMAIN map) \cup (Cardinality(DOMAIN map)..(Cardinality(DOMAIN map) + n - 1)) |->
        IF i \in DOMAIN map THEN map[i] ELSE group_index + 1]

\* item_to_group_map with the group's items added: keys count from 0
extend_group_map(map, n, group_index) ==
    [i \in (DOMAIN map) \cup (Cardinality(DOMAIN map)..(Cardinality(DOMAIN map) + n - 1)) |->
        IF i \in DOMAIN map THEN map[i] ELSE group_index]

\* the selection of _process_claim_request_group and the bookkeeping of
\* process_claim_request for the group's items
select_provider(c) ==
    /\ pc[c] = "select"
    /\ IF plan[c].mctx.matches = {}
       THEN PlanRaises(c, "StopIteration")
       ELSE \E chosen_id \in plan[c].mctx.matches :
              LET new == group_alloc_items(chosen_id, Group(c).resource_constraints)
              IN  NextGroup(c, plan[c].alloc_items \o new,
                            extend_group_map(plan[c].item_to_group_map, Len(new),
                                             plan[c].group_index))
    /\ UNCHANGED <<store, next_id, request, consumer_id, txn, admin_ops, lookup>>

\* ------------------------------------------------------------ the executor
Claim(c) ==
    [acquire_time |-> request[c].acquire_time,
     release_time |-> request[c].release_time,
     allocation_items |-> plan[c].alloc_items,
     allocation_item_to_request_groups |-> plan[c].item_to_group_map]

\* the list process_claim_request returns when its loop over the request
\* groups has ended: always one Claim, whatever the number of its items
process_claim_request(c) == <<Claim(c)>>

Min(S) == CHOOSE x \in S : \A y \in S : x <= y

\* the result of the first item, in list order, that `check` does not pass
FirstFailure(items, check(_)) ==
    LET bad == {i \in 1..Len(items) : check(items[i]) # "ok"}
    IN  IF bad = {} THEN "ok" ELSE check(items[Min(bad)])

\* a Phase 1 read that is not narrowed to the providers of the claim's items
provider_usages_of_all_providers(claim_obj) ==
    LET rt_ids == {rt_id_from_code(claim_obj.allocation_items[i].resource_type) :
                     i \in 1..Len(claim_obj.allocation_items)}
    IN  {[provider_id |-> inv.provider_id,
          provider_generation |-> generation[inv.provider_id],
          resource_type_id |-> inv.resource_type_id,
          total |-> inv.total,
          reserved |-> inv.reserved,
          min_unit |-> inv.min_unit,
          max_unit |-> inv.max_unit,
          step_size |-> inv.step_size,
          allocation_ratio |-> inv.allocation_ratio,
          total_used |-> total_used(claim_obj.acquire_time, claim_obj.release_time,
                                    inv.provider_id, inv.resource_type_id)] :
        inv \in {i \in inventories : i.resource_type_id \in rt_ids}}

\* the Usage of (provider, resource type) that Phase 1 reads
provider_usages(claim_obj) ==
    LET p_ids == {claim_obj.allocation_items[i].provider :
                    i \in 1..Len(claim_obj.allocation_items)}
        rt_ids == {rt_id_from_code(claim_obj.allocation_items[i].resource_type) :
                     i \in 1..Len(claim_obj.allocation_items)}
    IN  {[provider_id |-> inv.provider_id,
          provider_generation |-> generation[inv.provider_id],
          resource_type_id |-> inv.resource_type_id,
          total |-> inv.total,
          reserved |-> inv.reserved,
          min_unit |-> inv.min_unit,
          max_unit |-> inv.max_unit,
          step_size |-> inv.step_size,
          allocation_ratio |-> inv.allocation_ratio,
          total_used |-> total_used(claim_obj.acquire_time, claim_obj.release_time,
                                    inv.provider_id, inv.resource_type_id)] :
        inv \in {i \in inventories : i.provider_id \in p_ids
                                     /\ i.resource_type_id \in rt_ids}}

\* a missing inventory row reported as a lack of capacity
missing_inventory_as_capacity(claim_obj, alloc_item) ==
    IF \E u \in provider_usages(claim_obj) :
         /\ u.provider_id = alloc_item.provider
         /\ u.resource_type_id = rt_id_from_code(alloc_item.resource_type)
    THEN "ok" ELSE "CapacityExceeded"

missing_inventory(claim_obj, alloc_item) ==
    IF \E u \in provider_usages(claim_obj) :
         /\ u.provider_id = alloc_item.provider
         /\ u.resource_type_id = rt_id_from_code(alloc_item.resource_type)
    THEN "ok" ELSE "MissingInventory"

\* the unit checks of Phase 1 without its capacity check
unit_check_only(claim_obj, alloc_item) ==
    LET usage == CHOOSE u \in provider_usages(claim_obj) :
                   /\ u.provider_id = alloc_item.provider
                   /\ u.resource_type_id = rt_id_from_code(alloc_item.resource_type)
        amount_needed == alloc_item.used
    IN  IF amount_needed < usage.min_unit THEN "MinUnitViolation"
        ELSE IF amount_needed > usage.max_unit THEN "MaxUnitViolation"
        ELSE IF amount_needed % usage.step_size # 0 THEN "StepSizeViolation"
        ELSE "ok"

\* the checks of Phase 1 with a capacity check that leaves the usage out
capacity_check_without_usage(claim_obj, alloc_item) ==
    LET usage == CHOOSE u \in provider_usages(claim_obj) :
                   /\ u.provider_id = alloc_item.provider
                   /\ u.resource_type_id = rt_id_from_code(alloc_item.resource_type)
        amount_needed == alloc_item.used
    IN  IF amount_needed < usage.min_unit THEN "MinUnitViolation"
        ELSE IF amount_needed > usage.max_unit THEN "MaxUnitViolation"
        ELSE IF amount_needed % usage.step_size # 0 THEN "StepSizeViolation"
        ELSE IF capacity(usage) < amount_needed THEN "CapacityExceeded"
        ELSE "ok"

unit_and_capacity_check(claim_obj, alloc_item) ==
    LET usage == CHOOSE u \in provider_usages(claim_obj) :
                   /\ u.provider_id = alloc_item.provider
                   /\ u.resource_type_id = rt_id_from_code(alloc_item.resource_type)
        amount_needed == alloc_item.used
    IN  IF amount_needed < usage.min_unit THEN "MinUnitViolation"
        ELSE IF amount_needed > usage.max_unit THEN "MaxUnitViolation"
        ELSE IF amount_needed % usage.step_size # 0 THEN "StepSizeViolation"
        ELSE IF capacity(usage) < usage.total_used + amount_needed
        THEN "CapacityExceeded"
        ELSE "ok"

\* the exception _check_provider_capacity raises, or "ok"
check_provider_capacity(claim_obj) ==
    LET items == claim_obj.allocation_items
        missing(item) == missing_inventory(claim_obj, item)
        check(item) == unit_and_capacity_check(claim_obj, item)
    IN  IF FirstFailure(items, missing) # "ok"
        THEN FirstFailure(items, missing)
        ELSE FirstFailure(items, check)

iteration_orders(S) ==
    {s \in [1..Cardinality(S) -> S] : \A i, j \in DOMAIN s : s[i] = s[j] => i = j}

\* the dicts _check_provider_capacity can return: the providers of the rows
\* read, each with the generation read, in the dict's iteration order
provider_map(claim_obj) ==
    LET ids == {u.provider_id : u \in provider_usages(claim_obj)}
    IN  {[i \in DOMAIN order |-> [id |-> order[i], generation |-> generation[order[i]]]] :
           order \in iteration_orders(ids)}

NoTxn ==
    [provider_map |-> <<>>, done |-> 0, snapshot |-> <<>>, alloc_id |-> NULL,
     consumer_rows |-> <<>>, object_rows |-> <<>>, alloc_rows |-> <<>>,
     item_rows |-> <<>>, error |-> "ok"]

\* an exception that leaves execute with the session's statements already
\* applied to the store, each as it ran
RaisesAfterAutocommit(c, err) ==
    /\ txn' = [txn EXCEPT ![c].error = err]
    /\ pc' = [pc EXCEPT ![c] = "failed"]
    /\ allocations' = allocations \cup SeqToSet(txn[c].alloc_rows)
    /\ allocation_items' = allocation_items \o txn[c].item_rows
    /\ consumers' = consumers \o txn[c].consumer_rows
    /\ object_names' = object_names \o txn[c].object_rows
    /\ generation' = [p \in provider_rows |->
                        IF \E i \in 1..txn[c].done : txn[c].provider_map[i].id = p
                        THEN generation[p] + 1 ELSE generation[p]]
    /\ UNCHANGED <<provider_capabilities, inventories>>

\* the exception leaves execute: the session is dropped without a commit, and
\* the rows it wrote are dropped with it
Raises(c, err) ==
    /\ txn' = [txn EXCEPT ![c].error = err]
    /\ pc' = [pc EXCEPT ![c] = "failed"]
    /\ UNCHANGED store

\* Phase 1 of execute, line 1041, for a claim of the list the planner returned
execute_check(c) ==
    /\ pc[c] = "planned"
    /\ \E x \in 1..Len(process_claim_request(c)) :
         LET claim_obj == process_claim_request(c)[x]
         IN  IF check_provider_capacity(claim_obj) # "ok"
             THEN Raises(c, check_provider_capacity(claim_obj))
             ELSE \E pm \in provider_map(claim_obj) :
                    /\ txn' = [txn EXCEPT ![c].provider_map = pm,
                                          ![c].snapshot = consumers]
                    /\ pc' = [pc EXCEPT ![c] = "write"]
                    /\ UNCHANGED store
    /\ UNCHANGED <<next_id, request, consumer_id, plan, admin_ops, lookup>>

\* a lookup that never finds the consumer
consumer_rows_never_found(rows, uuid) == {}

\* the rows consumer.create_if_not_exists reads for the consumer's uuid
consumer_rows_by_uuid(rows, uuid) ==
    {rows[i].id : i \in {j \in 1..Len(rows) : rows[j].uuid = uuid}}

item_values(alloc_id, items) ==
    [i \in 1..Len(items) |->
        [allocation_id |-> alloc_id,
         provider_id |-> items[i].provider,
         resource_type_id |-> rt_id_from_code(items[i].resource_type),
         used |-> items[i].used]]

\* the row an INSERT without values writes: every column at its default
DefaultItemRow ==
    [allocation_id |-> NULL, provider_id |-> NULL, resource_type_id |-> NULL,
     used |-> NULL]

\* the rows sess.execute(ins, item_values) inserts: one per element, and for
\* an empty list one row without values
inserted_item_rows(values) ==
    IF values = <<>> THEN <<DefaultItemRow>> ELSE values

\* the writes of execute, lines 1043 to 1059: the consumer upsert, the
\* allocation row and the allocation item rows, all inside the transaction.
\* The insert without values either writes its row or is refused by the
\* database (a column without a default), which ends execute with the error.
execute_write(c) ==
    /\ pc[c] = "write"
    /\ LET uuid == request[c].consumer.uuid
           found == consumer_rows_by_uuid(txn[c].snapshot, uuid)
           insert == consumer_id[c] = NULL /\ found = {}
           alloc_id == next_id.allocations
       IN  \E c_id \in IF consumer_id[c] # NULL THEN {consumer_id[c]}
                       ELSE IF found = {} THEN {next_id.consumers}
                       ELSE found :
              /\ consumer_id' = [consumer_id EXCEPT ![c] = c_id]
              /\ next_id' = [allocations |-> next_id.allocations + 1,
                             consumers |-> next_id.consumers + (IF insert THEN 1 ELSE 0)]
              /\ LET written == [txn EXCEPT
                   ![c].consumer_rows =
                       IF insert
                       THEN <<[id |-> c_id, uuid |-> uuid,
                               generation |-> ConsumerGeneration]>>
                       ELSE <<>>,
                   ![c].object_rows =
                       IF insert
                       THEN <<[object_type |-> "runm.machine", uuid |-> uuid,
                               name |-> request[c].consumer.name]>>
                       ELSE <<>>,
                   ![c].alloc_id = alloc_id,
                   ![c].alloc_rows =
                       <<[id |-> alloc_id, consumer_id |-> c_id,
                          acquire_time |-> request[c].acquire_time,
                          release_time |-> request[c].release_time]>>,
                   ![c].item_rows =
                       inserted_item_rows(item_values(alloc_id, plan[c].alloc_items))]
                 IN  \/ /\ txn' = written
                        /\ pc' = [pc EXCEPT ![c] = "cas"]
                     \/ /\ plan[c].alloc_items = <<>>
                        /\ txn' = [written EXCEPT ![c].error = "DatabaseError"]
                        /\ pc' = [pc EXCEPT ![c] = "failed"]
    /\ UNCHANGED <<store, request, plan, admin_ops, lookup>>

\* the provider rows whose write lock the transaction holds
locked(c) ==
    IF pc[c] = "cas"
    THEN {txn[c].provider_map[i].id : i \in 1..txn[c].done}
    ELSE {}

\* the rows an update matches that does not compare the generation
rowcount_by_id(provider) ==
    Cardinality({p \in provider_rows : p = provider.id})

\* the rows an update matches that compares the generation of every provider
\* row instead of the one row of the provider
rowcount_by_generation(provider) ==
    IF \A p \in provider_rows : generation[p] = provider.generation THEN 1 ELSE 0

\* the rows the conditional update of a provider's generation matches
rowcount(provider) ==
    Cardinality({p \in provider_rows : p = provider.id
                                   /\ generation[p] = provider.generation})

\* an update that writes the generation two higher
new_generation_skips(provider) == provider.generation + 2

\* the generation the update writes
new_generation(provider) == provider.generation + 1

\* one iteration of the loop of lines 1064 and 1065: the conditional update
\* waits for the row's lock, then compares the row's committed generation
\* a generation update that, on a mismatch, drops the transaction and goes
\* back to Phase 1
increment_generation_retries(c) ==
    /\ pc[c] = "cas"
    /\ txn[c].done < Len(txn[c].provider_map)
    /\ LET p == txn[c].provider_map[txn[c].done + 1]
       IN  /\ \A o \in Claimants \ {c} : p.id \notin locked(o)
           /\ IF rowcount(p) # 1
              THEN /\ txn' = [txn EXCEPT ![c] = NoTxn]
                   /\ pc' = [pc EXCEPT ![c] = "planned"]
                   /\ UNCHANGED store
              ELSE /\ txn' = [txn EXCEPT ![c].done = @ + 1]
                   /\ pc' = pc
                   /\ UNCHANGED store
    /\ UNCHANGED <<next_id, request, consumer_id, plan, admin_ops, lookup>>

increment_generation(c) ==
    /\ pc[c] = "cas"
    /\ txn[c].done < Len(txn[c].provider_map)
    /\ LET p == txn[c].provider_map[txn[c].done + 1]
       IN  /\ \A o \in Claimants \ {c} : p.id \notin locked(o)
           /\ IF rowcount(p) # 1
              THEN Raises(c, "GenerationConflict")
              ELSE /\ txn' = [txn EXCEPT ![c].done = @ + 1]
                   /\ pc' = pc
                   /\ UNCHANGED store
    /\ UNCHANGED <<next_id, request, consumer_id, plan, admin_ops, lookup>>

\* sess.commit(), line 1067
commit(c) ==
    /\ pc[c] = "cas"
    /\ txn[c].done = Len(txn[c].provider_map)
    /\ generation' = [p \in provider_rows |->
                        IF \E i \in 1..Len(txn[c].provider_map) :
                             txn[c].provider_map[i].id = p
                        THEN new_generation(CHOOSE e \in SeqToSet(txn[c].provider_map) :
                                              e.id = p)
                        ELSE generation[p]]
    /\ allocations' = allocations \cup SeqToSet(txn[c].alloc_rows)
    /\ allocation_items' = allocation_items \o txn[c].item_rows
    /\ consumers' = consumers \o txn[c].consumer_rows
    /\ object_names' = object_names \o txn[c].object_rows
    /\ pc' = [pc EXCEPT ![c] = "committed"]
    /\ UNCHANGED <<provider_capabilities, inventories, next_id, request,
                   consumer_id, plan, txn, admin_ops, lookup>>

\* ------------------------------------------------------- the administrator
\* an inventory row is removed, or its unit sizing is changed, while claims
\* are planned and executed
AdminChanges ==
    {"delete", "min_unit", "max_unit", "step_size"}

admin_change_inventory(p, rt_id, change) ==
    /\ admin_ops < MaxAdminOps
    /\ \E c \in Claimants :
         /\ pc[c] = "planned"
         /\ \E i \in 1..Len(plan[c].alloc_items) :
              /\ plan[c].alloc_items[i].provider = p
              /\ rt_id_from_code(plan[c].alloc_items[i].resource_type) = rt_id
    /\ \E inv \in inventories :
         /\ inv.provider_id = p /\ inv.resource_type_id = rt_id
         /\ inventories' =
              (inventories \ {inv}) \cup
              (IF change = "delete" THEN {}
               ELSE IF change = "min_unit" THEN {[inv EXCEPT !.min_unit = 2]}
               ELSE IF change = "max_unit" THEN {[inv EXCEPT !.max_unit = 1]}
               ELSE {[inv EXCEPT !.step_size = 2]})
         /\ inventories' # inventories
    /\ admin_ops' = admin_ops + 1
    /\ UNCHANGED <<generation, provider_capabilities, allocations, allocation_items,
                   consumers, object_names, next_id, request, consumer_id, pc,
                   plan, txn, lookup>>

\* ------------------------------------------------------ the cached lookups
\* the catalog tables lookup.py caches, and the rows a SELECT of id and code
\* returns from each
CatalogTables ==
    {"provider_types", "consumer_types", "resource_types", "capabilities"}

provider_types == [compute |-> 1]
consumer_types == [machine |-> 1]

catalog_rows(tbl) ==
    CASE tbl = "provider_types" -> provider_types
      [] tbl = "consumer_types" -> consumer_types
      [] tbl = "resource_types" -> resource_types
      [] tbl = "capabilities" -> capabilities

\* a module global: None, or the dict built from the rows
None == <<>>
Some(rows) == <<rows>>

\* lookups a task makes
MaxLookups == 2

\* the state of a process before any lookup: every global is None, no catalog
\* query has been executed, and every task is outside the lookup functions
NoLookups ==
    [map |-> [tbl \in CatalogTables |-> None],
     queries |-> [tbl \in CatalogTables |-> 0],
     task |-> [c \in Claimants |-> [at |-> "idle", tbl |-> "", lookups |-> 0]]]

claim_state ==
    <<store, next_id, request, consumer_id, pc, plan, txn, admin_ops>>

\* _get_*_map up to its test of the global: a global that is not None is
\* returned, otherwise the task goes on to query the table
get_map_test(c, tbl) ==
    /\ lookup.task[c].at = "idle"
    /\ lookup.task[c].lookups < MaxLookups
    /\ IF lookup.map[tbl] # None
       THEN lookup' = [lookup EXCEPT !.task[c].lookups = @ + 1]
       ELSE lookup' = [lookup EXCEPT !.task[c].at = "select", !.task[c].tbl = tbl]
    /\ UNCHANGED claim_state

\* sess.execute(sel): the catalog query
get_map_select(c) ==
    /\ lookup.task[c].at = "select"
    /\ lookup' = [lookup EXCEPT !.queries[lookup.task[c].tbl] = @ + 1,
                                !.task[c].at = "assign"]
    /\ UNCHANGED claim_state

\* the assignment of the dict to the global, and the return
get_map_assign(c) ==
    /\ lookup.task[c].at = "assign"
    /\ lookup' = [lookup EXCEPT
                    !.map[lookup.task[c].tbl] = Some(catalog_rows(lookup.task[c].tbl)),
                    !.task[c] = [at |-> "idle", tbl |-> "", lookups |-> @.lookups + 1]]
    /\ UNCHANGED claim_state

\* _cap_id_from_code and _rt_id_from_code of the claim module: one SELECT on
\* the catalog table at every call, with no cache
id_from_code(c, tbl) ==
    /\ tbl \in {"capabilities", "resource_types"}
    /\ lookup.task[c].at = "idle"
    /\ lookup.task[c].lookups < MaxLookups
    /\ lookup' = [lookup EXCEPT !.queries[tbl] = @ + 1,
                                !.task[c].lookups = @ + 1]
    /\ UNCHANGED claim_state

\* ------------------------------------------------- requests and fixtures
NoConstraint ==
    [present |-> FALSE, require_caps |-> <<>>, forbid_caps |-> <<>>, any_caps |-> <<>>]

CapabilityConstraint(require_caps, forbid_caps, any_caps) ==
    [present |-> TRUE, require_caps |-> require_caps,
     forbid_caps |-> forbid_caps, any_caps |-> any_caps]

ResourceConstraint(resource_type, min_amount, max_amount, capability_constraint) ==
    [resource_type |-> resource_type, min_amount |-> min_amount,
     max_amount |-> max_amount, capability_constraint |-> capability_constraint]

ClaimRequestGroup(resource_constraints, capability_constraints) ==
    [resource_constraints |-> resource_constraints,
     capability_constraints |-> capability_constraints]

Consumer(uuid) == [uuid |-> uuid, name |-> "instance"]

ClaimRequest(consumer, request_groups, acquire_time, release_time) ==
    [consumer |-> consumer, request_groups |-> request_groups,
     acquire_time |-> acquire_time, release_time |-> release_time]

\* an inventory row as a provider profile loads it: reserved = 0, min_unit = 1,
\* max_unit = total, step_size = 1, allocation_ratio = 1 unless given
Inventory(p, rt, total, reserved, allocation_ratio) ==
    [provider_id |-> p, resource_type_id |-> resource_types[rt], total |-> total,
     reserved |-> reserved, min_unit |-> 1, max_unit |-> total, step_size |-> 1,
     allocation_ratio |-> allocation_ratio]

Cpu(amount) == ResourceConstraint("cpu", amount, amount, NoConstraint)
Mem(amount) == ResourceConstraint("mem", amount, amount, NoConstraint)

\* the deployment of the concurrent scenarios: every provider offers 2 cpu (odd
\* providers as total 2, even ones as (2 - 1) * 2), provider 1 also 2 mem;
\* provider 1 carries c1, every other provider c2
DeployedInventories ==
    {Inventory(p, "cpu", 2, 0, 1) : p \in {q \in Providers : q % 2 = 1}}
    \cup {Inventory(p, "cpu", 2, 1, 2) : p \in {q \in Providers : q % 2 = 0}}
    \cup {Inventory(1, "mem", 2, 0, 1)}

DeployedCapabilities ==
    {<<1, capabilities.c1>>} \cup {<<p, capabilities.c2>> : p \in Providers \ {1}}

\* a request that only provider 1 can serve, and that fills it
RaceRequest(consumer) ==
    ClaimRequest(consumer,
        <<ClaimRequestGroup(<<Cpu(2)>>,
                            <<CapabilityConstraint(<<"c1">>, <<>>, <<>>)>>)>>,
        0, 10)

\* a request of two groups, each of which any provider can serve
TwoGroupRequest(consumer) ==
    ClaimRequest(consumer,
        <<ClaimRequestGroup(<<Cpu(1)>>, <<>>), ClaimRequestGroup(<<Cpu(2)>>, <<>>)>>,
        2, 5)

\* the first two claimants send either request, under their own consumer or
\* under consumer 1; every further claimant sends the first, as itself
ClaimantRequests(c) ==
    IF c <= 2
    THEN {RaceRequest(Consumer(u)) : u \in {1, c}}
         \cup {TwoGroupRequest(Consumer(u)) : u \in {1, c}}
    ELSE {RaceRequest(Consumer(c))}

FreshPlan ==
    [group_index |-> 0, index |-> 1, mctx |-> MatchContext, alloc_items |-> <<>>,
     item_to_group_map |-> <<>>, error |-> "ok"]

Init ==
    /\ generation = [p \in Providers |-> 1]
    /\ provider_capabilities = DeployedCapabilities
    /\ inventories = DeployedInventories
    /\ allocations = {}
    /\ allocation_items = <<>>
    /\ consumers = <<>>
    /\ object_names = <<>>
    /\ next_id = [allocations |-> 1, consumers |-> 1]
    /\ request \in {r \in [Claimants -> UNION {ClaimantRequests(c) : c \in Claimants}] :
                      \A c \in Claimants : r[c] \in ClaimantRequests(c)}
    /\ consumer_id = [c \in Claimants |-> NULL]
    /\ pc = [c \in Claimants |-> GroupEntry(request[c].request_groups, 0)]
    /\ plan = [c \in Claimants |-> FreshPlan]
    /\ txn = [c \in Claimants |-> NoTxn]
    /\ admin_ops = 0
    /\ lookup = NoLookups

Next ==
    \/ \E c \in Claimants :
         \/ process_capability_constraints(c)
         \/ process_resource_constraints(c)
         \/ select_provider(c)
         \/ execute_check(c)
         \/ execute_write(c)
         \/ increment_generation(c)
         \/ commit(c)
    \/ \E p \in Providers, rt_id \in {1, 2}, change \in AdminChanges :
         admin_change_inventory(p, rt_id, change)

Spec == Init /\ [][Next]_vars

\* ---------------------------------------------- a caller that tries again
\* The caller of a failed execute plans the same request again and executes
\* the new claim with the same Consumer object, whose id the failed execute
\* may have set.

\* the allocation ids handed out before a caller stops trying again
MaxAllocationId == NumClaimants + 1

retry(c) ==
    /\ pc[c] = "failed"
    /\ next_id.allocations <= MaxAllocationId
    /\ plan' = [plan EXCEPT ![c] = FreshPlan]
    /\ txn' = [txn EXCEPT ![c] = NoTxn]
    /\ pc' = [pc EXCEPT ![c] = GroupEntry(request[c].request_groups, 0)]
    /\ UNCHANGED <<store, next_id, request, consumer_id, admin_ops, lookup>>

NextRetry == Next \/ \E c \in Claimants : retry(c)

SpecRetry == Init /\ [][NextRetry]_vars

\* ------------------------------------------- the planner on its own
\* the deployment of the planning scenarios: odd providers offer 4 cpu and
\* 2 mem, both in units of 2, even providers 2 cpu as (2 - 1) * 2
PlannedInventories ==
    {[Inventory(p, "cpu", 4, 0, 1) EXCEPT !.min_unit = 2, !.step_size = 2] :
        p \in {q \in Providers : q % 2 = 1}}
    \cup {[Inventory(p, "mem", 2, 0, 1) EXCEPT !.step_size = 2] :
             p \in {q \in Providers : q % 2 = 1}}
    \cup {Inventory(p, "cpu", 2, 1, 2) : p \in {q \in Providers : q % 2 = 0}}

CapabilityLists == {<<>>, <<"c1">>, <<"c1", "c2">>}

CapabilityConstraints ==
    {CapabilityConstraint(r, f, a) :
        r \in CapabilityLists, f \in {<<>>, <<"c2">>}, a \in {<<>>, <<"c1", "c2">>}}

ResourceConstraintLists ==
    {<<Cpu(1)>>, <<Cpu(2)>>, <<Cpu(3)>>, <<Cpu(2), Mem(1)>>, <<Cpu(2), Mem(2)>>}

PlannedGroups ==
    {ClaimRequestGroup(rcs, ccs) :
        rcs \in ResourceConstraintLists,
        ccs \in {<<>>} \cup {<<cc>> : cc \in CapabilityConstraints}
                \cup {<<cc1, cc2>> : cc1 \in CapabilityConstraints,
                                     cc2 \in CapabilityConstraints}}

PlannedRequests ==
    {ClaimRequest(Consumer(1), <<g>>, 0, 10) : g \in PlannedGroups}
    \cup {ClaimRequest(Consumer(1), <<g, ClaimRequestGroup(<<Cpu(2)>>, <<>>)>>, 0, 10) :
            g \in {h \in PlannedGroups : Len(h.capability_constraints) <= 1}}

\* a store with one committed allocation of 2 cpu on provider 1, or none
CommittedStores ==
    {[generation |-> [p \in Providers |-> 1], allocations |-> {},
      allocation_items |-> <<>>, consumers |-> <<>>, object_names |-> <<>>,
      next_id |-> [allocations |-> 1, consumers |-> 1]],
     [generation |-> [p \in Providers |-> IF p = 1 THEN 2 ELSE 1],
      allocations |-> {[id |-> 1, consumer_id |-> 1, acquire_time |-> 2,
                        release_time |-> 5]},
      allocation_items |-> <<[allocation_id |-> 1, provider_id |-> 1,
                              resource_type_id |-> 1, used |-> 2]>>,
      consumers |-> <<[id |-> 1, uuid |-> 2, generation |-> ConsumerGeneration]>>,
      object_names |-> <<[object_type |-> "runm.machine", uuid |-> 2,
                          name |-> "instance"]>>,
      next_id |-> [allocations |-> 2, consumers |-> 2]]}

InitPlan ==
    /\ \E s \in CommittedStores :
         /\ generation = s.generation
         /\ allocations = s.allocations
         /\ allocation_items = s.allocation_items
         /\ consumers = s.consumers
         /\ object_names = s.object_names
         /\ next_id = s.next_id
    /\ provider_capabilities \in SUBSET (Providers \X {1, 2})
    /\ inventories = PlannedInventories
    /\ \E r \in PlannedRequests : request = [c \in Claimants |-> r]
    /\ consumer_id = [c \in Claimants |-> NULL]
    /\ pc = [c \in Claimants |->
               IF c = 1 THEN GroupEntry(request[c].request_groups, 0) ELSE "idle"]
    /\ plan = [c \in Claimants |-> FreshPlan]
    /\ txn = [c \in Claimants |-> NoTxn]
    /\ admin_ops = 0
    /\ lookup = NoLookups

NextPlan ==
    \E c \in Claimants :
       \/ process_capability_constraints(c)
       \/ process_resource_constraints(c)
       \/ select_provider(c)

SpecPlan == InitPlan /\ [][NextPlan]_vars

\* ------------------------- the planner on resource-scoped capability constraints
\* a cpu constraint that carries a capability constraint of its own
CpuWith(amount, capability_constraint) ==
    ResourceConstraint("cpu", amount, amount, capability_constraint)

\* every non-empty combination of a require, a forbid and an any list
EmbeddedConstraints ==
    {cc \in CapabilityConstraints :
        Len(cc.require_caps) + Len(cc.forbid_caps) + Len(cc.any_caps) > 0}

\* one request group of one such cpu constraint, alone or behind a group
\* constraint that requires c1
QueryRequests ==
    {ClaimRequest(Consumer(1), <<ClaimRequestGroup(<<CpuWith(2, cc)>>, ccs)>>, 0, 10) :
        cc \in EmbeddedConstraints,
        ccs \in {<<>>, <<CapabilityConstraint(<<"c1">>, <<>>, <<>>)>>}}

InitQuery ==
    /\ \E s \in CommittedStores :
         /\ generation = s.generation
         /\ allocations = s.allocations
         /\ allocation_items = s.allocation_items
         /\ consumers = s.consumers
         /\ object_names = s.object_names
         /\ next_id = s.next_id
    /\ provider_capabilities \in SUBSET (Providers \X {1, 2})
    /\ inventories = PlannedInventories
    /\ \E r \in QueryRequests : request = [c \in Claimants |-> r]
    /\ consumer_id = [c \in Claimants |-> NULL]
    /\ pc = [c \in Claimants |->
               IF c = 1 THEN GroupEntry(request[c].request_groups, 0) ELSE "idle"]
    /\ plan = [c \in Claimants |-> FreshPlan]
    /\ txn = [c \in Claimants |-> NoTxn]
    /\ admin_ops = 0
    /\ lookup = NoLookups

SpecQuery == InitQuery /\ [][NextPlan]_vars

\* ------------------------------------------------ the claim configuration
\* the largest amount a resource request of a claim configuration names
MaxAmount == 3

\* dict.get(key, default)
dict_get(d, key, default) == IF key \in DOMAIN d THEN d[key] ELSE default

\* the amounts of a resource request with nothing put in for an absent key
amounts_without_default(res_request) ==
    [min_amount |-> dict_get(res_request, "min", NULL),
     max_amount |-> dict_get(res_request, "max", NULL)]

\* min_amount and max_amount of a resource request, lines 65 and 66
amounts(res_request) ==
    [min_amount |-> dict_get(res_request, "min", dict_get(res_request, "max", NULL)),
     max_amount |-> dict_get(res_request, "max", dict_get(res_request, "min", NULL))]

\* ClaimConfig._process_resource_constraints on the items of a 'resources'
\* block, in the order the dict gives them: the constraints, or the error
\* raised at the first resource request with neither min nor max
config_resource_constraints(block) ==
    IF \E i \in 1..Len(block) : DOMAIN block[i].res_request \cap {"min", "max"} = {}
    THEN [error |-> "ValueError", constraints |-> <<>>]
    ELSE [error |-> "ok",
          constraints |->
            [i \in 1..Len(block) |->
               ResourceConstraint(block[i].rc_name,
                                  amounts(block[i].res_request).min_amount,
                                  amounts(block[i].res_request).max_amount,
                                  NoConstraint)]]

\* ClaimConfig._load_claim_request_groups and find_claims: the claim request
\* of a configuration, once its file is read
load_claim_request(c) ==
    /\ pc[c] = "config"
    /\ LET groups == request[c].config
           loaded == [g \in 1..Len(groups) |->
                        config_resource_constraints(groups[g].resources)]
       IN  IF \E g \in 1..Len(groups) : loaded[g].error # "ok"
           THEN /\ PlanRaises(c, "ValueError")
                /\ UNCHANGED request
           ELSE LET req_groups ==
                      [g \in 1..Len(groups) |->
                         ClaimRequestGroup(loaded[g].constraints,
                                           groups[g].capabilities)]
                IN  /\ request' = [request EXCEPT ![c] =
                                     ClaimRequest(request[c].consumer, req_groups,
                                                  request[c].acquire_time,
                                                  request[c].release_time)]
                    /\ pc' = [pc EXCEPT ![c] = GroupEntry(req_groups, 0)]
                    /\ UNCHANGED plan
    /\ UNCHANGED <<store, next_id, consumer_id, txn, admin_ops, lookup>>

\* a resource request: min, max, both or neither
ResRequests == UNION {[D -> 1..MaxAmount] : D \in SUBSET {"min", "max"}}

\* the 'resources' blocks: cpu alone, or cpu and mem
ResourceBlocks ==
    {<<[rc_name |-> "cpu", res_request |-> r]>> : r \in ResRequests}
    \cup {<<[rc_name |-> "cpu", res_request |-> r],
            [rc_name |-> "mem", res_request |-> q]>> :
             r \in ResRequests, q \in ResRequests}

\* the configurations: one request group, with or without a 'capabilities' key
ClaimConfigs ==
    {<<[resources |-> b, capabilities |-> ccs]>> :
        b \in ResourceBlocks,
        ccs \in {<<>>, <<CapabilityConstraint(<<"c1">>, <<>>, <<>>)>>}}

InitConfig ==
    /\ \E s \in CommittedStores :
         /\ generation = s.generation
         /\ allocations = s.allocations
         /\ allocation_items = s.allocation_items
         /\ consumers = s.consumers
         /\ object_names = s.object_names
         /\ next_id = s.next_id
    /\ provider_capabilities = DeployedCapabilities
    /\ inventories = PlannedInventories
    /\ \E cfg \in ClaimConfigs :
         request = [c \in Claimants |->
                      [consumer |-> Consumer(1), config |-> cfg,
                       acquire_time |-> 0, release_time |-> 10]]
    /\ consumer_id = [c \in Claimants |-> NULL]
    /\ pc = [c \in Claimants |-> IF c = 1 THEN "config" ELSE "idle"]
    /\ plan = [c \in Claimants |-> FreshPlan]
    /\ txn = [c \in Claimants |-> NoTxn]
    /\ admin_ops = 0
    /\ lookup = NoLookups

NextConfig ==
    \E c \in Claimants :
       \/ load_claim_request(c)
       \/ process_capability_constraints(c)
       \/ process_resource_constraints(c)
       \/ select_provider(c)

SpecConfig == InitConfig /\ [][NextConfig]_vars

\* ------------------------------- the planner on codes absent from the catalogs
\* a constraint on a resource type that has no row in resource_types
Gpu(amount) == ResourceConstraint("gpu", amount, amount, NoConstraint)

\* capability constraints over c1, c2 and c9, which has no row in capabilities
CodedConstraints ==
    {CapabilityConstraint(r, f, a) :
        r \in {<<>>, <<"c1">>, <<"c9">>},
        f \in {<<>>, <<"c9">>},
        a \in {<<>>, <<"c2">>, <<"c9">>}}

CodedRequests ==
    {ClaimRequest(Consumer(1), <<ClaimRequestGroup(rcs, ccs)>>, 0, 10) :
        rcs \in {<<Cpu(2)>>, <<Gpu(1)>>, <<Cpu(3), Gpu(1)>>},
        ccs \in {<<>>} \cup {<<cc>> : cc \in CodedConstraints}
                \cup {<<CapabilityConstraint(<<"c1">>, <<>>, <<>>), cc>> :
                         cc \in CodedConstraints}}

InitCodes ==
    /\ \E s \in CommittedStores :
         /\ generation = s.generation
         /\ allocations = s.allocations
         /\ allocation_items = s.allocation_items
         /\ consumers = s.consumers
         /\ object_names = s.object_names
         /\ next_id = s.next_id
    /\ provider_capabilities \in SUBSET (Providers \X {1, 2})
    /\ inventories = PlannedInventories
    /\ \E r \in CodedRequests : request = [c \in Claimants |-> r]
    /\ consumer_id = [c \in Claimants |-> NULL]
    /\ pc = [c \in Claimants |->
               IF c = 1 THEN GroupEntry(request[c].request_groups, 0) ELSE "idle"]
    /\ plan = [c \in Claimants |-> FreshPlan]
    /\ txn = [c \in Claimants |-> NoTxn]
    /\ admin_ops = 0
    /\ lookup = NoLookups

SpecCodes == InitCodes /\ [][NextPlan]_vars

\* ------------------------------ one caller, planning and executing alone
\* process_claim_request and then execute, as main runs them for one claim
\* configuration, with nothing else writing to the store
NextAlone ==
    \E c \in Claimants :
       \/ process_capability_constraints(c)
       \/ process_resource_constraints(c)
       \/ select_provider(c)
       \/ execute_check(c)
       \/ execute_write(c)
       \/ increment_generation(c)
       \/ commit(c)

SpecAlone == InitPlan /\ [][NextAlone]_vars

\* ------------------------- the planner on more providers than a query returns
\* a deployment with one provider more than the default row limit
LimitProviders == 1..(DefaultLimit + 1)

\* one group asking 2 cpu of a provider that carries c1, by require or by
\* any, or of one that does not carry c1, with or without asking for c2
LimitRequests ==
    {ClaimRequest(Consumer(1), <<ClaimRequestGroup(<<Cpu(2)>>, <<cc>>)>>, 0, 10) :
        cc \in {CapabilityConstraint(<<"c1">>, <<>>, <<>>),
                CapabilityConstraint(<<>>, <<>>, <<"c1">>),
                CapabilityConstraint(<<>>, <<"c1">>, <<>>),
                CapabilityConstraint(<<"c2">>, <<"c1">>, <<>>),
                CapabilityConstraint(<<>>, <<"c1">>, <<"c2">>)}}

\* every provider carries c1 and one of them carries c2 and offers cpu, or
\* every provider offers cpu and one of them carries c1
InitLimit ==
    /\ generation = [p \in LimitProviders |-> 1]
    /\ \E q \in LimitProviders :
         \/ /\ provider_capabilities =
                   {<<p, capabilities.c1>> : p \in LimitProviders}
                   \cup {<<q, capabilities.c2>>}
            /\ inventories = {Inventory(q, "cpu", 2, 0, 1)}
         \/ /\ provider_capabilities = {<<q, capabilities.c1>>}
            /\ inventories = {Inventory(p, "cpu", 2, 0, 1) : p \in LimitProviders}
    /\ allocations = {}
    /\ allocation_items = <<>>
    /\ consumers = <<>>
    /\ object_names = <<>>
    /\ next_id = [allocations |-> 1, consumers |-> 1]
    /\ \E r \in LimitRequests : request = [c \in Claimants |-> r]
    /\ consumer_id = [c \in Claimants |-> NULL]
    /\ pc = [c \in Claimants |->
               IF c = 1 THEN GroupEntry(request[c].request_groups, 0) ELSE "idle"]
    /\ plan = [c \in Claimants |-> FreshPlan]
    /\ txn = [c \in Claimants |-> NoTxn]
    /\ admin_ops = 0
    /\ lookup = NoLookups

SpecLimit == InitLimit /\ [][NextPlan]_vars

\* --------------------------------------------- a MatchContext on its own
\* the number of provider ids the match sets are drawn from
MaxKeys == 4

MatchKeys == 1..MaxKeys

\* mctx.match_or(new_matches) on the claimant's MatchContext
mctx_match_or(c, new_matches) ==
    /\ pc[c] = "matching"
    /\ plan' = [plan EXCEPT ![c].mctx = match_or(plan[c].mctx, new_matches)]
    /\ UNCHANGED <<store, next_id, request, consumer_id, pc, txn, admin_ops, lookup>>

\* mctx.match_and(new_matches) on the claimant's MatchContext
mctx_match_and(c, new_matches) ==
    /\ pc[c] = "matching"
    /\ plan' = [plan EXCEPT ![c].mctx = match_and(plan[c].mctx, new_matches)]
    /\ UNCHANGED <<store, next_id, request, consumer_id, pc, txn, admin_ops, lookup>>

\* every claimant holds a fresh MatchContext
InitMatch ==
    /\ generation = [p \in Providers |-> 1]
    /\ provider_capabilities = DeployedCapabilities
    /\ inventories = DeployedInventories
    /\ allocations = {}
    /\ allocation_items = <<>>
    /\ consumers = <<>>
    /\ object_names = <<>>
    /\ next_id = [allocations |-> 1, consumers |-> 1]
    /\ request = [c \in Claimants |-> RaceRequest(Consumer(c))]
    /\ consumer_id = [c \in Claimants |-> NULL]
    /\ pc = [c \in Claimants |-> "matching"]
    /\ plan = [c \in Claimants |-> FreshPlan]
    /\ txn = [c \in Claimants |-> NoTxn]
    /\ admin_ops = 0
    /\ lookup = NoLookups

NextMatch ==
    \E c \in Claimants, new_matches \in SUBSET MatchKeys :
       \/ mctx_match_or(c, new_matches)
       \/ mctx_match_and(c, new_matches)

SpecMatch == InitMatch /\ [][NextMatch]_vars

\* ------------------------- the planner on groups without resource constraints
\* request groups as _load_claim_request_groups builds them from a 'resources'
\* block that may be an empty mapping
BareGroups ==
    {ClaimRequestGroup(rcs, ccs) :
        rcs \in {<<>>, <<Cpu(2)>>},
        ccs \in {<<>>} \cup {<<cc>> : cc \in CapabilityConstraints}}

BareRequests ==
    {ClaimRequest(Consumer(1), <<g>>, 0, 10) : g \in BareGroups}
    \cup {ClaimRequest(Consumer(1), <<ClaimRequestGroup(<<Cpu(2)>>, <<>>), g>>, 0, 10) :
            g \in BareGroups}

InitBare ==
    /\ \E s \in CommittedStores :
         /\ generation = s.generation
         /\ allocations = s.allocations
         /\ allocation_items = s.allocation_items
         /\ consumers = s.consumers
         /\ object_names = s.object_names
         /\ next_id = s.next_id
    /\ provider_capabilities \in SUBSET (Providers \X {1, 2})
    /\ inventories = PlannedInventories
    /\ \E r \in BareRequests : request = [c \in Claimants |-> r]
    /\ consumer_id = [c \in Claimants |-> NULL]
    /\ pc = [c \in Claimants |->
               IF c = 1 THEN GroupEntry(request[c].request_groups, 0) ELSE "idle"]
    /\ plan = [c \in Claimants |-> FreshPlan]
    /\ txn = [c \in Claimants |-> NoTxn]
    /\ admin_ops = 0
    /\ lookup = NoLookups

SpecBare == InitBare /\ [][NextPlan]_vars

\* ----------------------------------------- the tasks of one process looking up
InitLookup ==
    /\ generation = [p \in Providers |-> 1]
    /\ provider_capabilities = DeployedCapabilities
    /\ inventories = DeployedInventories
    /\ allocations = {}
    /\ allocation_items = <<>>
    /\ consumers = <<>>
    /\ object_names = <<>>
    /\ next_id = [allocations |-> 1, consumers |-> 1]
    /\ request = [c \in Claimants |-> RaceRequest(Consumer(c))]
    /\ consumer_id = [c \in Claimants |-> NULL]
    /\ pc = [c \in Claimants |-> "idle"]
    /\ plan = [c \in Claimants |-> FreshPlan]
    /\ txn = [c \in Claimants |-> NoTxn]
    /\ admin_ops = 0
    /\ lookup = NoLookups

NextLookup ==
    \E c \in Claimants :
       \/ \E tbl \in CatalogTables : get_map_test(c, tbl)
       \/ get_map_select(c)
       \/ get_map_assign(c)
       \/ \E tbl \in CatalogTables : id_from_code(c, tbl)

SpecLookup == InitLookup /\ [][NextLookup]_vars

\* ------------------------------------------------------------ properties
Terminal == {"committed", "failed", "plan_error", "idle"}

\* the committed allocation row of an allocation item
AllocationOf(item) == CHOOSE a \in allocations : a.id = item.allocation_id

Overlaps(a, acquire_time, release_time) ==
    a.acquire_time < release_time /\ acquire_time < a.release_time

RECURSIVE CommittedUsed(_, _, _, _, _)
\* the sum of `used` over the first n committed items on (p, rt_id) whose
\* allocation overlaps the window
CommittedUsed(p, rt_id, acquire_time, release_time, n) ==
    IF n = 0 THEN 0
    ELSE CommittedUsed(p, rt_id, acquire_time, release_time, n - 1)
         + (IF /\ allocation_items[n].provider_id = p
               /\ allocation_items[n].resource_type_id = rt_id
               /\ Overlaps(AllocationOf(allocation_items[n]),
                           acquire_time, release_time)
            THEN allocation_items[n].used ELSE 0)

\* the providers of a claimant's planned items
ClaimProviders(c) ==
    {plan[c].alloc_items[i].provider : i \in 1..Len(plan[c].alloc_items)}

\* C1: after any interleaving of successful executes, for every inventory row
\* (p, r) and every claim window, the committed items on (p, r) whose
\* allocation overlaps the window use at most (total - reserved) *
\* allocation_ratio.
C1_CapacityClosure ==
    \A inv \in inventories, c \in Claimants :
        CommittedUsed(inv.provider_id, inv.resource_type_id,
                      request[c].acquire_time, request[c].release_time,
                      Len(allocation_items)) <= capacity(inv)

\* the providers a committed allocation has items on
AllocationProviders(alloc_id) ==
    {allocation_items[i].provider_id :
        i \in {j \in 1..Len(allocation_items) :
                 allocation_items[j].allocation_id = alloc_id}}

\* C3: a commit adds exactly one to the generation of every provider its
\* claim's items reference (once per provider) and leaves every other
\* generation alone, no other step changes a generation, and so a provider's
\* generation is its first generation plus the number of committed claims
\* that touched it.
C3_GenerationPlusOne ==
    /\ [](\A p \in Providers :
            generation[p] =
              1 + Cardinality({a \in allocations : p \in AllocationProviders(a.id)}))
    /\ [][\A p \in Providers :
            /\ generation'[p] >= generation[p]
            /\ \A c \in Claimants :
                 (pc[c] = "cas" /\ pc'[c] = "committed") =>
                    generation'[p] =
                      generation[p] + (IF p \in ClaimProviders(c) THEN 1 ELSE 0)
            /\ (\A c \in Claimants : pc'[c] = "committed" => pc[c] = "committed")
                 => generation'[p] = generation[p]]_vars

\* a committed claim with two items on one provider, whose generation is 2
C3_Witness ==
    \E c \in Claimants :
        /\ pc[c] = "committed"
        /\ \E i, j \in 1..Len(plan[c].alloc_items) :
             /\ i # j
             /\ plan[c].alloc_items[i].provider = plan[c].alloc_items[j].provider
             /\ generation[plan[c].alloc_items[i].provider] = 2

\* the claimants that have reached Phase 2 of execute
Executing == {"write", "cas", "committed", "failed"}

\* every claimant's claim is one item on provider p, which fits the capacity
\* of its inventory row inv alone but not together with another claimant's
RaceFor(p, inv) ==
    /\ inv.provider_id = p
    /\ \A c \in Claimants : Len(plan[c].alloc_items) = 1
    /\ \A c \in Claimants :
         /\ plan[c].alloc_items[1].provider = p
         /\ rt_id_from_code(plan[c].alloc_items[1].resource_type)
              = inv.resource_type_id
         /\ plan[c].alloc_items[1].used <= capacity(inv)
         /\ \A d \in Claimants \ {c} :
              plan[c].alloc_items[1].used + plan[d].alloc_items[1].used
                > capacity(inv)

Committed == {c \in Claimants : pc[c] = "committed"}

\* C2: when every claimant has planned a claim against the one provider whose
\* capacity admits exactly one of them and the inventory is left alone, at
\* most one execute has committed, and once every execute has ended exactly
\* one has committed and every other has raised GenerationConflict or
\* CapacityExceeded.
C2_AtMostOne ==
    (/\ admin_ops = 0
     /\ \A c \in Claimants : pc[c] \in Executing \cup {"planned"}
     /\ \E p \in Providers : \E inv \in inventories : RaceFor(p, inv))
    => /\ Cardinality(Committed) <= 1
       /\ \A c \in Claimants :
            pc[c] = "failed" =>
               txn[c].error \in {"GenerationConflict", "CapacityExceeded"}
       /\ (\A c \in Claimants : pc[c] \in {"committed", "failed"})
            => Cardinality(Committed) = 1

\* the race has ended: one claimant has committed and one has been refused by
\* the capacity check of Phase 1
C2_Witness ==
    /\ admin_ops = 0
    /\ \E p \in Providers : \E inv \in inventories : RaceFor(p, inv)
    /\ \A c \in Claimants : pc[c] \in {"committed", "failed"}
    /\ \E c \in Claimants : pc[c] = "failed" /\ txn[c].error = "CapacityExceeded"

\* claimants c and d both read provider p at the same generation in Phase 1
ReadSameGeneration(c, d, p) ==
    \E i \in 1..Len(txn[c].provider_map), j \in 1..Len(txn[d].provider_map) :
        /\ txn[c].provider_map[i].id = p
        /\ txn[d].provider_map[j].id = p
        /\ txn[c].provider_map[i].generation = txn[d].provider_map[j].generation

DisjointFromOthers(c) ==
    \A d \in Claimants \ {c} :
        pc[d] \in Executing => ClaimProviders(c) \cap ClaimProviders(d) = {}

\* C5: an execute whose claim shares no provider with any other execute is
\* never made to wait or to fail by them: each of its conditional updates
\* finds its row unlocked and at the generation read, and it fails only as
\* it would alone: on an inventory row changed under it, or on the insert of
\* an empty item list.
C5_DisjointNeverConflict ==
    \A c \in Claimants :
        (pc[c] \in Executing /\ DisjointFromOthers(c))
        => /\ pc[c] = "failed" =>
                \/ /\ admin_ops > 0
                   /\ txn[c].error \in {"MissingInventory", "MinUnitViolation",
                                        "MaxUnitViolation", "StepSizeViolation"}
                \/ /\ plan[c].alloc_items = <<>>
                   /\ txn[c].error = "DatabaseError"
           /\ (pc[c] = "cas" /\ txn[c].done < Len(txn[c].provider_map)) =>
                /\ rowcount(txn[c].provider_map[txn[c].done + 1]) = 1
                /\ \A o \in Claimants \ {c} :
                     txn[c].provider_map[txn[c].done + 1].id \notin locked(o)

\* two executes on disjoint providers, for the same consumer, ran side by
\* side (each inserted the consumer's row) and both committed
C5_Witness ==
    \E c \in Claimants, d \in Claimants :
        /\ c # d
        /\ pc[c] = "committed" /\ pc[d] = "committed"
        /\ ClaimProviders(c) # {} /\ ClaimProviders(d) # {}
        /\ ClaimProviders(c) \cap ClaimProviders(d) = {}
        /\ request[c].consumer.uuid = request[d].consumer.uuid
        /\ Len(txn[c].consumer_rows) = 1 /\ Len(txn[d].consumer_rows) = 1

\* the rows a claimant's transaction wrote are in the committed store
RowsObservable(c) ==
    \/ \E a \in allocations : a.id = txn[c].alloc_id
    \/ \E i \in 1..Len(allocation_items) :
         /\ txn[c].alloc_id # NULL
         /\ allocation_items[i].allocation_id = txn[c].alloc_id
    \/ \E i \in 1..Len(consumers), j \in 1..Len(txn[c].consumer_rows) :
         consumers[i].id = txn[c].consumer_rows[j].id

\* C6: the step in which execute raises leaves the committed store exactly as
\* it was, and no allocation, allocation item or consumer row written by an
\* execute that raised is ever in the committed store.
C6_FailureRollsBack ==
    /\ [](\A c \in Claimants : pc[c] = "failed" => ~RowsObservable(c))
    /\ [][\A c \in Claimants :
            (pc[c] # "failed" /\ pc'[c] = "failed") => store' = store]_vars

\* an execute raised GenerationConflict after it had written its rows and
\* updated the generation of one provider
C6_Witness ==
    \E c \in Claimants :
        /\ pc[c] = "failed"
        /\ txn[c].error = "GenerationConflict"
        /\ txn[c].done >= 1
        /\ Len(txn[c].item_rows) > 0
        /\ Len(txn[c].consumer_rows) > 0

\* ------------------------------------------------ properties of the planner
Carries(p, cap) == <<p, cap_id_from_code(cap)>> \in provider_capabilities

\* the positions, in a claimant's item list, of the items of request group g
ItemsOfGroup(c, g) ==
    {i \in 1..Len(plan[c].alloc_items) : plan[c].item_to_group_map[i - 1] = g}

GroupIndexes(c) == 0..(Len(Groups(c)) - 1)

\* the capability constraints of request group g
ConstraintsOf(c, g) == SeqToSet(Groups(c)[g + 1].capability_constraints)

\* the planner has finished with request group g
GroupDone(c, g) == plan[c].group_index > g

\* C7: no item of a request group is on a provider carrying a capability that
\* one of the group's capability constraints forbids.
C7_ExclusionHonored ==
    \A c \in Claimants : \A g \in GroupIndexes(c) : \A i \in ItemsOfGroup(c, g) :
        \A cc \in ConstraintsOf(c, g) : \A k \in 1..Len(cc.forbid_caps) :
            ~Carries(plan[c].alloc_items[i].provider, cc.forbid_caps[k])

\* C8 as stated: the provider of every item of a request group carries every
\* capability of every non-empty require list of the group's capability
\* constraints.
C8_RequireAll ==
    \A c \in Claimants : \A g \in GroupIndexes(c) : \A i \in ItemsOfGroup(c, g) :
        \A cc \in ConstraintsOf(c, g) : \A k \in 1..Len(cc.require_caps) :
            Carries(plan[c].alloc_items[i].provider, cc.require_caps[k])

\* provider p meets capability constraint cc: all of require, one of any when
\* any is given, none of forbid
Meets(p, cc) ==
    /\ \A k \in 1..Len(cc.require_caps) : Carries(p, cc.require_caps[k])
    /\ Len(cc.any_caps) > 0 => \E k \in 1..Len(cc.any_caps) : Carries(p, cc.any_caps[k])
    /\ \A k \in 1..Len(cc.forbid_caps) : ~Carries(p, cc.forbid_caps[k])

\* C8 as the code has it: when a request group has a capability constraint
\* with a require list, the provider of every item of the group meets at
\* least one of the group's capability constraints that have a require or an
\* any list, so it carries every capability of that constraint's require
\* list (of R itself when the group has no other such constraint).
C8_RequireAllOfSomeConstraint ==
    \A c \in Claimants : \A g \in GroupIndexes(c) : \A i \in ItemsOfGroup(c, g) :
        (\E cc \in ConstraintsOf(c, g) : Len(cc.require_caps) > 0)
        => \E cc \in ConstraintsOf(c, g) :
              /\ Len(cc.require_caps) > 0 \/ Len(cc.any_caps) > 0
              /\ Meets(plan[c].alloc_items[i].provider, cc)

\* a group with two capability constraints, each with a require list, has an
\* item on a provider that carries the one list and not the other
C8_Witness ==
    \E c \in Claimants : \E g \in GroupIndexes(c) : \E i \in ItemsOfGroup(c, g) :
        /\ Len(Groups(c)[g + 1].capability_constraints) = 2
        /\ \A cc \in ConstraintsOf(c, g) : Len(cc.require_caps) > 0
        /\ \E cc \in ConstraintsOf(c, g) :
             \A k \in 1..Len(cc.require_caps) :
                Carries(plan[c].alloc_items[i].provider, cc.require_caps[k])
        /\ \E cc \in ConstraintsOf(c, g) :
             \E k \in 1..Len(cc.require_caps) :
                ~Carries(plan[c].alloc_items[i].provider, cc.require_caps[k])

\* the inventory rows of a resource type code
InventoriesOf(resource_type) ==
    {inv \in inventories : inv.resource_type_id = rt_id_from_code(resource_type)}

\* C9: every planned item has an inventory row of its provider and resource
\* type with min_unit <= used <= max_unit and used a multiple of step_size;
\* and a request group with a resource constraint whose amount is a multiple
\* of the step size of no provider's row ends with no items.
C9_UnitDiscipline ==
    \A c \in Claimants :
        /\ \A i \in 1..Len(plan[c].alloc_items) :
             LET item == plan[c].alloc_items[i]
             IN  \E inv \in InventoriesOf(item.resource_type) :
                    /\ inv.provider_id = item.provider
                    /\ inv.min_unit <= item.used
                    /\ item.used <= inv.max_unit
                    /\ item.used % inv.step_size = 0
        /\ \A g \in GroupIndexes(c) :
             (/\ GroupDone(c, g)
              /\ \E k \in 1..Len(Groups(c)[g + 1].resource_constraints) :
                   LET rc == Groups(c)[g + 1].resource_constraints[k]
                   IN  \A inv \in InventoriesOf(rc.resource_type) :
                          rc.max_amount % inv.step_size # 0)
             => ItemsOfGroup(c, g) = {}

\* a group asked, beside a cpu amount some provider offers, for a mem amount
\* that is a multiple of no provider's step size and ended without items,
\* while the request's other group was planned onto a provider
C9_Witness ==
    \E c \in Claimants : \E g \in GroupIndexes(c) :
        /\ GroupDone(c, g)
        /\ ItemsOfGroup(c, g) = {}
        /\ \E k \in 1..Len(Groups(c)[g + 1].resource_constraints) :
             LET rc == Groups(c)[g + 1].resource_constraints[k]
             IN  /\ InventoriesOf(rc.resource_type) # {}
                 /\ \A inv \in InventoriesOf(rc.resource_type) :
                       rc.max_amount % inv.step_size # 0
        /\ Len(plan[c].alloc_items) > 0

\* cc has only a forbid list, and no provider carries a capability on it
NullForbid(cc) ==
    /\ Len(cc.require_caps) = 0
    /\ Len(cc.any_caps) = 0
    /\ Len(cc.forbid_caps) > 0
    /\ ~UnknownCap(cc.forbid_caps)
    /\ \A p \in Providers : \A k \in 1..Len(cc.forbid_caps) : ~Carries(p, cc.forbid_caps[k])

\* the providers that the capacity query returns for every resource
\* constraint of request group g when nothing is excluded
Satisfying(c, g) ==
    {p \in Providers :
        \A k \in 1..Len(Groups(c)[g + 1].resource_constraints) :
            p \in UNION find_providers_with_resource(
                          request[c].acquire_time, request[c].release_time,
                          Groups(c)[g + 1].resource_constraints[k], {}, UNLIMITED)}

\* C10: a capability constraint with only a forbid list that matches no
\* provider leaves the match context (matches, exclude, started_filtering)
\* and the items as they were and lets the group go on; and a group whose
\* capability constraints are all of this kind, with resource constraints
\* that some provider satisfies, ends with one item per resource constraint
\* on one of those providers.
C10_NullForbidPositive ==
    /\ [][\A c \in Claimants :
            (/\ pc[c] = "caps"
             /\ NullForbid(Group(c).capability_constraints[plan[c].index])
             /\ <<pc[c], plan[c]>>' # <<pc[c], plan[c]>>)
            => /\ plan'[c].mctx = plan[c].mctx
               /\ plan'[c].group_index = plan[c].group_index
               /\ plan'[c].alloc_items = plan[c].alloc_items
               /\ pc'[c] \in {"caps", "resources", "select"}]_vars
    /\ [](\A c \in Claimants : \A g \in GroupIndexes(c) :
            (/\ GroupDone(c, g)
             /\ ConstraintsOf(c, g) # {}
             /\ \A cc \in ConstraintsOf(c, g) : NullForbid(cc)
             /\ Len(Groups(c)[g + 1].resource_constraints) > 0
             /\ Satisfying(c, g) # {})
            => /\ Cardinality(ItemsOfGroup(c, g))
                    = Len(Groups(c)[g + 1].resource_constraints)
               /\ \A i \in ItemsOfGroup(c, g) :
                    plan[c].alloc_items[i].provider \in Satisfying(c, g))

\* a group whose only capability constraint forbids a capability that no
\* provider carries has been planned onto a provider
C10_Witness ==
    \E c \in Claimants : \E g \in GroupIndexes(c) :
        /\ GroupDone(c, g)
        /\ Len(Groups(c)[g + 1].capability_constraints) = 1
        /\ NullForbid(Groups(c)[g + 1].capability_constraints[1])
        /\ ItemsOfGroup(c, g) # {}
        /\ \E p \in Providers : Carries(p, "c1")

\* C11: when the planner has ended without an exception and with no item for
\* any request group, the list of claims it returns is empty.
C11_InfeasibleReturnsNoClaim ==
    \A c \in Claimants :
        (pc[c] = "planned" /\ Len(plan[c].alloc_items) = 0)
        => Len(process_claim_request(c)) = 0

\* ------------------------------------------------- properties of Phase 1
\* the inventory rows of a planned item's provider and resource type
ItemRows(item) ==
    {inv \in inventories :
        /\ inv.provider_id = item.provider
        /\ inv.resource_type_id = rt_id_from_code(item.resource_type)}

Phase1Failures ==
    {"MissingInventory", "MinUnitViolation", "MaxUnitViolation",
     "StepSizeViolation", "CapacityExceeded"}

\* claimant c's item i violates the Phase 1 check named by kind, against the
\* inventory and the usage in the store now
Violates(c, i, kind) ==
    LET item == plan[c].alloc_items[i]
    IN  IF kind = "MissingInventory" THEN ItemRows(item) = {}
        ELSE \E inv \in ItemRows(item) :
               IF kind = "MinUnitViolation" THEN item.used < inv.min_unit
               ELSE IF kind = "MaxUnitViolation" THEN item.used > inv.max_unit
               ELSE IF kind = "StepSizeViolation" THEN item.used % inv.step_size # 0
               ELSE (inv.total - inv.reserved) * inv.allocation_ratio
                      < total_used(request[c].acquire_time, request[c].release_time,
                                   inv.provider_id, inv.resource_type_id)
                        + item.used

\* the Phase 1 checks that some item of claimant c's claim violates
Violated(c) ==
    {kind \in Phase1Failures :
        \E i \in 1..Len(plan[c].alloc_items) : Violates(c, i, kind)}

\* C12: Phase 1 lets execute go on to its writes exactly when no item of the
\* claim violates min_unit, max_unit, step_size or capacity against the rows
\* read at execution time; otherwise execute raises the failure of a check
\* that some item violates, and when only one check is violated, that one.
C12_Phase1Checks ==
    [][\A c \in Claimants :
         (pc[c] = "planned" /\ pc'[c] # "planned")
         => /\ pc'[c] \in {"write", "failed"}
            /\ pc'[c] = "write" <=> Violated(c) = {}
            /\ pc'[c] = "failed" => txn'[c].error \in Violated(c)
            /\ \A kind \in Phase1Failures :
                 Violated(c) = {kind} => txn'[c].error = kind]_vars

\* an execute was refused by the step size check, before any write
C12_Witness ==
    \E c \in Claimants :
        /\ pc[c] = "failed"
        /\ txn[c].error = "StepSizeViolation"
        /\ txn[c].alloc_rows = <<>>
        /\ \E d \in Claimants : pc[d] = "committed"

\* C13: when the inventory row of some item of the claim is gone at the time
\* of Phase 1, execute raises MissingInventory in that step, with the store
\* left as it was; it has written no row and updated no generation, and it
\* never goes on: nothing of it is ever committed.
C13_MissingInventory ==
    /\ [][\A c \in Claimants :
            (/\ pc[c] = "planned" /\ pc'[c] # "planned"
             /\ \E i \in 1..Len(plan[c].alloc_items) :
                  ItemRows(plan[c].alloc_items[i]) = {})
            => /\ pc'[c] = "failed"
               /\ txn'[c].error = "MissingInventory"
               /\ store' = store]_vars
    /\ [](\A c \in Claimants :
            (pc[c] = "failed" /\ txn[c].error = "MissingInventory")
            => /\ txn[c].alloc_rows = <<>> /\ txn[c].item_rows = <<>>
               /\ txn[c].consumer_rows = <<>> /\ txn[c].object_rows = <<>>
               /\ txn[c].provider_map = <<>> /\ txn[c].done = 0
               /\ ~RowsObservable(c))
    /\ [][\A c \in Claimants :
            (pc[c] = "failed" /\ txn[c].error = "MissingInventory")
            => (pc'[c] = "failed" /\ txn'[c] = txn[c])]_vars

\* an execute found the cpu row of its provider removed and raised
\* MissingInventory; the provider is still at its first generation
C13_Witness ==
    \E c \in Claimants :
        /\ pc[c] = "failed"
        /\ txn[c].error = "MissingInventory"
        /\ Len(plan[c].alloc_items) > 0
        /\ \A i \in 1..Len(plan[c].alloc_items) :
             generation[plan[c].alloc_items[i].provider] = 1

\* ----------------------------------------- properties of the claim's shape
\* the number of items before item i that belong to the same request group
RankInGroup(c, i) ==
    Cardinality({j \in 1..(i - 1) :
                   plan[c].item_to_group_map[j - 1] = plan[c].item_to_group_map[i - 1]})

\* C14: the planner takes the request groups in input order and appends each
\* group's items: item_to_group_map has exactly the keys 0..n-1 for n items,
\* is non-decreasing, maps every item to a group already taken, and that
\* group's resource constraint at the item's rank in the group is the one
\* the item was made from; a step adds items only at the end, and maps them
\* to the group being matched.
C14_ItemToGroupMap ==
    /\ [](\A c \in Claimants :
            LET n == Len(plan[c].alloc_items)
                map == plan[c].item_to_group_map
            IN  /\ DOMAIN map = 0..(n - 1)
                /\ \A i \in 1..n :
                     /\ map[i - 1] \in 0..(Len(Groups(c)) - 1)
                     /\ map[i - 1] < plan[c].group_index
                     /\ i > 1 => map[i - 2] <= map[i - 1]
                     /\ LET rcs == Groups(c)[map[i - 1] + 1].resource_constraints
                            k == RankInGroup(c, i) + 1
                        IN  /\ k <= Len(rcs)
                            /\ plan[c].alloc_items[i].resource_type = rcs[k].resource_type
                            /\ plan[c].alloc_items[i].used = rcs[k].max_amount)
    /\ [][\A c \in Claimants :
            LET n == Len(plan[c].alloc_items)
            IN  /\ Len(plan'[c].alloc_items) >= n
                /\ plan'[c].group_index \in {plan[c].group_index, plan[c].group_index + 1}
                /\ \A i \in 1..n :
                     /\ plan'[c].alloc_items[i] = plan[c].alloc_items[i]
                     /\ plan'[c].item_to_group_map[i - 1] = plan[c].item_to_group_map[i - 1]
                /\ \A i \in (n + 1)..Len(plan'[c].alloc_items) :
                     plan'[c].item_to_group_map[i - 1] = plan[c].group_index]_vars

\* the first request group gave no item, and the claim's first item, of
\* index 0, is mapped to the second group, of index 1
C14_Witness ==
    \E c \in Claimants :
        /\ pc[c] = "planned"
        /\ Len(plan[c].alloc_items) > 0
        /\ plan[c].item_to_group_map[0] = 1

\* C15: a request group that passed its capability and resource constraints
\* gives exactly one item per resource constraint, in the constraints'
\* order, carrying the constraint's resource type and its max_amount as the
\* amount used, and all of the group's items are bound to one provider, a
\* member of the final matches.
C15_OneItemPerConstraint ==
    [][\A c \in Claimants :
         (pc[c] = "select" /\ plan'[c].group_index = plan[c].group_index + 1)
         => LET n == Len(plan[c].alloc_items)
                rcs == Groups(c)[plan[c].group_index + 1].resource_constraints
                items == plan'[c].alloc_items
            IN  /\ Len(items) = n + Len(rcs)
                /\ \E chosen \in plan[c].mctx.matches :
                     \A k \in 1..Len(rcs) :
                        /\ items[n + k].provider = chosen
                        /\ items[n + k].resource_type = rcs[k].resource_type
                        /\ items[n + k].used = rcs[k].max_amount]_vars

\* a group of two resource constraints gave two items of different resource
\* types on one provider
C15_Witness ==
    \E c \in Claimants :
        /\ pc[c] = "planned"
        /\ \E i \in 1..(Len(plan[c].alloc_items) - 1) :
             /\ plan[c].item_to_group_map[i - 1] = plan[c].item_to_group_map[i]
             /\ plan[c].alloc_items[i].provider = plan[c].alloc_items[i + 1].provider
             /\ plan[c].alloc_items[i].resource_type = "cpu"
             /\ plan[c].alloc_items[i + 1].resource_type = "mem"

\* ------------------------------------------- properties of the usage sum
RECURSIVE UsedInWindow(_, _, _, _, _)
\* the sum of `used` over the first n committed items on (p, rt_id) whose
\* allocation has acquire_time >= the window's and release_time < the window's
UsedInWindow(p, rt_id, acquire_time, release_time, n) ==
    IF n = 0 THEN 0
    ELSE UsedInWindow(p, rt_id, acquire_time, release_time, n - 1)
         + (IF /\ allocation_items[n].provider_id = p
               /\ allocation_items[n].resource_type_id = rt_id
               /\ \E a \in allocations :
                    /\ a.id = allocation_items[n].allocation_id
                    /\ a.acquire_time >= acquire_time
                    /\ a.release_time < release_time
            THEN allocation_items[n].used ELSE 0)

\* C16: whenever a claimant is about to run the capacity query of a resource
\* constraint, or the re-validation of Phase 1, the usage counted against a
\* provider for a resource type is the sum of `used` over its committed items
\* of that type whose allocation lies in the claim's window; items of
\* allocations outside the window count nothing.
C16_UsageWithinWindow ==
    \A c \in Claimants :
        pc[c] \in {"resources", "planned"}
        => \A p \in Providers :
             \A rt_id \in {resource_types.cpu, resource_types.mem} :
                total_used(request[c].acquire_time, request[c].release_time, p, rt_id)
                  = UsedInWindow(p, rt_id, request[c].acquire_time,
                                 request[c].release_time, Len(allocation_items))

RECURSIVE CountedUsage(_, _, _)
\* the sum of `used` over the first n committed items on (p, rt_id)
CountedUsage(p, rt_id, n) ==
    IF n = 0 THEN 0
    ELSE CountedUsage(p, rt_id, n - 1)
         + (IF /\ allocation_items[n].provider_id = p
               /\ allocation_items[n].resource_type_id = rt_id
            THEN allocation_items[n].used ELSE 0)

\* the resource constraint a claimant's capacity query is about to run for
CurrentConstraint(c) == Group(c).resource_constraints[plan[c].index]

\* C17: for a resource constraint without a capability constraint of its
\* own, and fewer qualifying providers than the row limit, the capacity
\* query returns exactly the providers that have an inventory row of the
\* resource type with (total - reserved) * allocation_ratio at least the
\* amount plus the provider's counted usage, min_unit <= amount <= max_unit
\* and amount mod step_size = 0, and that are not in the exclude set; a
\* provider with no allocation item has usage zero.
C17_CapacityQuery ==
    \A c \in Claimants :
        (pc[c] = "resources" /\ ~CurrentConstraint(c).capability_constraint.present)
        => LET rc == CurrentConstraint(c)
               amount == rc.max_amount
               rt_id == IF rc.resource_type = "cpu" THEN resource_types.cpu
                        ELSE resource_types.mem
           IN  \A exclude \in SUBSET Providers :
                  find_providers_with_resource(request[c].acquire_time,
                                               request[c].release_time,
                                               rc, exclude, DefaultLimit)
                  = {{p \in Providers \ exclude :
                        \E inv \in inventories :
                           /\ inv.provider_id = p
                           /\ inv.resource_type_id = rt_id
                           /\ (inv.total - inv.reserved) * inv.allocation_ratio
                                >= amount + CountedUsage(p, rt_id, Len(allocation_items))
                           /\ inv.min_unit <= amount
                           /\ amount <= inv.max_unit
                           /\ amount % inv.step_size = 0}}

\* the capacity query has run while allocation items were committed: the
\* provider that holds them was left out for its usage, and a provider
\* without any allocation item was matched
C17_Witness ==
    \E c \in Claimants :
        /\ pc[c] = "select"
        /\ Len(allocation_items) > 0
        /\ \E p \in plan[c].mctx.matches :
             \A i \in 1..Len(allocation_items) : allocation_items[i].provider_id # p
        /\ \E q \in Providers \ plan[c].mctx.matches :
             /\ CountedUsage(q, resource_types.cpu, Len(allocation_items)) > 0
             /\ \E inv \in inventories :
                  /\ inv.provider_id = q
                  /\ inv.resource_type_id = resource_types.cpu
                  /\ unit_discipline(inv, Group(c).resource_constraints[1].max_amount)

\* C18: the capacity query of a resource constraint that carries a
\* capability constraint of its own returns, whatever non-empty combination
\* of require, any and forbid lists the constraint has, and every provider
\* it returns meets that constraint: all of require, one of any, none of
\* forbid.
C18_EmbeddedConstraint ==
    [][\A c \in Claimants :
         (/\ pc[c] = "resources"
          /\ CurrentConstraint(c).capability_constraint.present
          /\ plan'[c] # plan[c])
         => /\ pc'[c] # "plan_error"
            /\ pc'[c] = "select"
               => \A p \in plan'[c].mctx.matches :
                     Meets(p, CurrentConstraint(c).capability_constraint)]_vars

\* ------------------------------------------- properties of the executor
\* the consumers rows of a uuid
ConsumersOf(rows, uuid) == {i \in 1..Len(rows) : rows[i].uuid = uuid}

\* C19: an execute that commits adds to the store exactly one allocation
\* row, with the consumer's id and the claim's acquire_time and
\* release_time, and exactly one allocation item row per item of the claim,
\* in the items' order, with that allocation's id and the item's provider,
\* resource type and amount used; it adds a consumers row only if the store
\* it read held none for the consumer's uuid, and then exactly one.
C19_CommittedRows ==
    [][\A c \in Claimants :
         (pc[c] = "cas" /\ pc'[c] = "committed")
         => LET uuid == request[c].consumer.uuid
                items == plan[c].alloc_items
                n == Len(allocation_items)
                added == Len(consumers') - Len(consumers)
            IN  /\ allocations \subseteq allocations'
                /\ \E a \in allocations' \ allocations :
                     /\ allocations' = allocations \cup {a}
                     /\ \A b \in allocations : b.id # a.id
                     /\ a.acquire_time = request[c].acquire_time
                     /\ a.release_time = request[c].release_time
                     /\ a.consumer_id = consumer_id[c]
                     /\ \E i \in ConsumersOf(consumers', uuid) :
                          consumers'[i].id = a.consumer_id
                     /\ Len(allocation_items') = n + Len(items)
                     /\ \A i \in 1..n : allocation_items'[i] = allocation_items[i]
                     /\ \A k \in 1..Len(items) :
                          /\ allocation_items'[n + k].allocation_id = a.id
                          /\ allocation_items'[n + k].provider_id = items[k].provider
                          /\ allocation_items'[n + k].resource_type_id
                               = resource_types[items[k].resource_type]
                          /\ allocation_items'[n + k].used = items[k].used
                /\ \A i \in 1..Len(consumers) : consumers'[i] = consumers[i]
                /\ added \in {0, 1}
                /\ added = 1 => /\ ConsumersOf(txn[c].snapshot, uuid) = {}
                                /\ consumers'[Len(consumers')].uuid = uuid
                /\ added = 0 => ConsumersOf(consumers, uuid) # {}]_vars

\* one execute has committed an allocation of two items with a new consumers
\* row, and a later one has committed an allocation for the same consumer
\* without another consumers row
C19_Witness ==
    /\ \A c \in Claimants : pc[c] = "committed"
    /\ Cardinality(allocations) = NumClaimants
    /\ Len(consumers) = 1
    /\ \E a \in allocations :
         Cardinality({i \in 1..Len(allocation_items) :
                        allocation_items[i].allocation_id = a.id}) = 2

RequestCapabilityCodes(c) ==
    UNION {SeqToSet(cc.require_caps) \cup SeqToSet(cc.forbid_caps)
             \cup SeqToSet(cc.any_caps) :
           cc \in UNION {SeqToSet(Groups(c)[g].capability_constraints) :
                           g \in 1..Len(Groups(c))}}

RequestResourceCodes(c) ==
    UNION {{Groups(c)[g].resource_constraints[k].resource_type :
              k \in 1..Len(Groups(c)[g].resource_constraints)} :
           g \in 1..Len(Groups(c))}

\* the request names a code that its catalog does not hold
HasUnknownCode(c) ==
    \/ \E cap \in RequestCapabilityCodes(c) : cap \notin DOMAIN capabilities
    \/ \E rt \in RequestResourceCodes(c) : rt \notin DOMAIN resource_types

\* C21: a code that its catalog does not hold is never resolved to an
\* identifier, and planning a request that names such a capability or
\* resource type code never ends with a result, empty or not: it is aborted
\* with UnknownCode.
C21_UnknownCodeAborts ==
    /\ \A cap \in {"c1", "c2", "c9"} :
          cap \notin DOMAIN capabilities => cap_id_from_code(cap) = NULL
    /\ \A rt \in {"cpu", "mem", "gpu"} :
          rt \notin DOMAIN resource_types => rt_id_from_code(rt) = NULL
    /\ \A c \in Claimants :
          HasUnknownCode(c)
          => /\ pc[c] # "planned"
             /\ pc[c] = "plan_error" => plan[c].error = "UnknownCode"

\* ------------------------------- properties of the claim configuration
\* C22: loading a resource request with only min gives min_amount and
\* max_amount both equal to min, with only max both equal to max, with both
\* each its own value; a resource request with neither is rejected with an
\* error, and the configuration gives no claim request.
C22_AmountDefaults ==
    [][\A c \in Claimants :
         (pc[c] = "config" /\ pc'[c] # "config")
         => LET groups == request[c].config
                neither(r) == "min" \notin DOMAIN r /\ "max" \notin DOMAIN r
            IN  IF \E g \in 1..Len(groups) : \E i \in 1..Len(groups[g].resources) :
                      neither(groups[g].resources[i].res_request)
                THEN /\ pc'[c] = "plan_error"
                     /\ plan'[c].error = "ValueError"
                     /\ request'[c] = request[c]
                ELSE /\ pc'[c] # "plan_error"
                     /\ Len(request'[c].request_groups) = Len(groups)
                     /\ \A g \in 1..Len(groups) :
                          LET rcs == request'[c].request_groups[g].resource_constraints
                          IN  /\ Len(rcs) = Len(groups[g].resources)
                              /\ \A i \in 1..Len(rcs) :
                                   LET r == groups[g].resources[i].res_request
                                   IN  /\ rcs[i].resource_type = groups[g].resources[i].rc_name
                                       /\ "min" \in DOMAIN r => rcs[i].min_amount = r["min"]
                                       /\ "max" \in DOMAIN r => rcs[i].max_amount = r["max"]
                                       /\ "min" \notin DOMAIN r => rcs[i].min_amount = r["max"]
                                       /\ "max" \notin DOMAIN r => rcs[i].max_amount = r["min"]]_vars

\* a configuration of a cpu and a mem request was loaded into a claim
\* request whose constraints have min_amount = max_amount = 2, and planned
C22_Witness ==
    \E c \in Claimants :
        /\ pc[c] = "planned"
        /\ "request_groups" \in DOMAIN request[c]
        /\ Len(plan[c].alloc_items) = 2
        /\ LET rcs == request[c].request_groups[1].resource_constraints
           IN  /\ rcs[1].min_amount = 2 /\ rcs[1].max_amount = 2
               /\ rcs[2].min_amount = 2 /\ rcs[2].max_amount = 2

\* ------------------------------------- properties of Phase 1 on a whole claim
RECURSIVE ClaimedAmount(_, _, _, _)
\* the sum of `used` over the first n items of a claim on (p, rt_id)
ClaimedAmount(items, p, rt_id, n) ==
    IF n = 0 THEN 0
    ELSE ClaimedAmount(items, p, rt_id, n - 1)
         + (IF items[n].provider = p /\ rt_id_from_code(items[n].resource_type) = rt_id
            THEN items[n].used ELSE 0)

\* C23: Phase 1 accepts a claim only if, for every (provider, resource type)
\* its items name, the sum of the amounts of all of the claim's items on it
\* plus the usage read from the store is within (total - reserved) *
\* allocation_ratio.
C23_ClaimSumWithinCapacity ==
    [][\A c \in Claimants :
         (pc[c] = "planned" /\ pc'[c] = "write")
         => \A inv \in inventories :
               ClaimedAmount(plan[c].alloc_items, inv.provider_id,
                             inv.resource_type_id, Len(plan[c].alloc_items))
               + total_used(request[c].acquire_time, request[c].release_time,
                            inv.provider_id, inv.resource_type_id)
                 <= capacity(inv)]_vars

\* ------------------------------------- properties of the match context
\* cc has a forbid list and neither a require nor an any list
ForbidOnly(cc) ==
    /\ Len(cc.forbid_caps) > 0
    /\ Len(cc.require_caps) = 0
    /\ Len(cc.any_caps) = 0

\* the capability pass of the group being matched has ended
CapabilityPassEnded(c) == pc[c] \in {"resources", "select"}

\* C24: when the capability pass of a group has ended, every provider that
\* carries a capability on the forbid list of one of the group's forbid-only
\* capability constraints is in the match context's exclude set; exclude
\* does not shrink while the group is matched.
C24_ForbidOnlyExcluded ==
    /\ [](\A c \in Claimants :
            CapabilityPassEnded(c)
            => \A cc \in ConstraintsOf(c, plan[c].group_index) :
                  ForbidOnly(cc)
                  => \A p \in Providers :
                        (\E k \in 1..Len(cc.forbid_caps) : Carries(p, cc.forbid_caps[k]))
                        => p \in plan[c].mctx.exclude)
    /\ [][\A c \in Claimants :
            plan'[c].group_index = plan[c].group_index
            => plan[c].mctx.exclude \subseteq plan'[c].mctx.exclude]_vars

\* ------------------------------ properties of one capability constraint
\* the providers carrying every capability of a list, and those carrying one
HavingAll(caps) == {p \in Providers : \A k \in 1..Len(caps) : Carries(p, caps[k])}
HavingSome(caps) == {p \in Providers : \E k \in 1..Len(caps) : Carries(p, caps[k])}

\* (having all of require) cap (having one of any) minus (having one of
\* forbid), a factor whose list is empty being left out
ExactMatches(cc) ==
    ((IF Len(cc.require_caps) > 0 THEN HavingAll(cc.require_caps) ELSE Providers)
       \cap (IF Len(cc.any_caps) > 0 THEN HavingSome(cc.any_caps) ELSE Providers))
    \ HavingSome(cc.forbid_caps)

\* the capability constraint a claimant's capability pass is about to evaluate
CurrentCapabilityConstraint(c) == Group(c).capability_constraints[plan[c].index]

PositiveConstraints(c) ==
    {cc \in ConstraintsOf(c, plan[c].group_index) :
        Len(cc.require_caps) + Len(cc.any_caps) > 0}

\* C26: when the capability pass of a group ends and the group goes on,
\* matches is the union of the match sets of the group's capability
\* constraints that returned a result with matches; and a step of the
\* capability pass that stays in the group removes no provider from matches.
C26_MatchesAreUnion ==
    [][\A c \in Claimants :
         /\ (/\ pc[c] = "caps"
             /\ pc'[c] \in {"resources", "select"}
             /\ plan'[c].group_index = plan[c].group_index)
            => /\ plan'[c].mctx.matches
                    = UNION {ExactMatches(cc) : cc \in PositiveConstraints(c)}
               /\ \A cc \in PositiveConstraints(c) : ExactMatches(cc) # {}
         /\ (pc[c] = "caps" /\ plan'[c].group_index = plan[c].group_index)
            => plan[c].mctx.matches \subseteq plan'[c].mctx.matches]_vars

\* the capability pass of a group of two constraints has ended with matches
\* that neither constraint gives alone
C26_Witness ==
    \E c \in Claimants :
        /\ pc[c] = "resources"
        /\ plan[c].index = 1
        /\ Len(Group(c).capability_constraints) = 2
        /\ \A cc \in PositiveConstraints(c) :
             /\ ExactMatches(cc) # {}
             /\ ExactMatches(cc) # plan[c].mctx.matches
        /\ plan[c].mctx.matches = UNION {ExactMatches(cc) : cc \in PositiveConstraints(c)}
        /\ Cardinality(PositiveConstraints(c)) = 2

\* cc has a require list that no provider has all of, or an any list that no
\* provider has one of
ZeroMatch(cc) ==
    \/ Len(cc.require_caps) > 0 /\ HavingAll(cc.require_caps) = {}
    \/ Len(cc.any_caps) > 0 /\ HavingSome(cc.any_caps) = {}

\* C27: a request group with a capability constraint whose require or any
\* list matches no provider gives no item, whatever its other constraints
\* match; the capability pass leaves the group at the first such constraint
\* it evaluates, so no later constraint of the group is evaluated and no
\* capacity query is made for the group.
C27_FatalMiss ==
    /\ [](\A c \in Claimants : \A g \in GroupIndexes(c) :
            (GroupDone(c, g) /\ \E cc \in ConstraintsOf(c, g) : ZeroMatch(cc))
            => ItemsOfGroup(c, g) = {})
    /\ [](\A c \in Claimants :
            pc[c] \in {"resources", "select"}
            => \A cc \in ConstraintsOf(c, plan[c].group_index) : ~ZeroMatch(cc))
    /\ [][\A c \in Claimants :
            (pc[c] = "caps" /\ ZeroMatch(CurrentCapabilityConstraint(c))
             /\ plan'[c] # plan[c])
            => /\ plan'[c].group_index = plan[c].group_index + 1
               /\ plan'[c].alloc_items = plan[c].alloc_items]_vars

\* a group of two capability constraints was left without an item: its
\* second constraint requires what no provider has, its first one matched
\* providers that have the capacity asked for
C27_Witness ==
    \E c \in Claimants :
        /\ pc[c] = "planned"
        /\ Len(Groups(c)) = 1
        /\ Len(plan[c].alloc_items) = 0
        /\ LET ccs == Groups(c)[1].capability_constraints
           IN  /\ Len(ccs) = 2
               /\ ~ZeroMatch(ccs[1])
               /\ ZeroMatch(ccs[2])
               /\ ExactMatches(ccs[1]) \cap Satisfying(c, 0) # {}

\* what the capacity query returns for the k-th resource constraint of the
\* group being matched, given the match context's exclude set
QueryResult(c, k) ==
    UNION find_providers_with_resource(request[c].acquire_time, request[c].release_time,
                                       Group(c).resource_constraints[k],
                                       plan[c].mctx.exclude, DefaultLimit)

\* the intersection of the capacity query results of the first n resource
\* constraints of the group being matched, and of the capability pass's
\* matches when that pass put providers in matches
Intersection(c, n) ==
    {p \in IF PositiveConstraints(c) # {}
           THEN UNION {ExactMatches(cc) : cc \in PositiveConstraints(c)}
           ELSE Providers :
        \A k \in 1..n : p \in QueryResult(c, k)}

\* C28: while the resource pass of a group runs, matches is the intersection
\* of the capacity query results of the resource constraints queried so far,
\* and of the capability pass's matches when that pass put providers in
\* matches; the provider is selected from the intersection over all of the
\* group's resource constraints; and the query that leaves the intersection
\* empty ends the group without an item and without a further query.
C28_MatchesAreIntersection ==
    /\ [](\A c \in Claimants :
            /\ (pc[c] = "resources" /\ plan[c].index > 1)
               => /\ plan[c].mctx.matches = Intersection(c, plan[c].index - 1)
                  /\ plan[c].mctx.matches # {}
            /\ (pc[c] = "select" /\ Len(Group(c).resource_constraints) > 0)
               => /\ plan[c].mctx.matches
                       = Intersection(c, Len(Group(c).resource_constraints))
                  /\ plan[c].mctx.matches # {})
    /\ [][\A c \in Claimants :
            (pc[c] = "resources" /\ plan'[c] # plan[c])
            => IF Intersection(c, plan[c].index) = {}
               THEN /\ plan'[c].group_index = plan[c].group_index + 1
                    /\ plan'[c].alloc_items = plan[c].alloc_items
               ELSE /\ plan'[c].group_index = plan[c].group_index
                    /\ plan'[c].mctx.matches = Intersection(c, plan[c].index)]_vars

\* a provider is about to be selected for a group of two resource
\* constraints behind a capability constraint: the matches are fewer than
\* the providers the first capacity query returned
C28_Witness ==
    \E c \in Claimants :
        /\ pc[c] = "select"
        /\ Len(Group(c).resource_constraints) = 2
        /\ PositiveConstraints(c) # {}
        /\ plan[c].mctx.matches # {}
        /\ plan[c].mctx.matches # QueryResult(c, 1)
        /\ plan[c].mctx.matches \subseteq QueryResult(c, 2)

\* ------------------------------------- properties of a repeated execute
\* the ids of the consumers rows in a sequence of rows
ConsumerIds(rows) == {rows[i].id : i \in 1..Len(rows)}

\* C29: when a caller executes again with the Consumer object of a failed
\* execute, the writes of the new execute put the consumer's row in the
\* transaction unless the store it read holds that row, and every committed
\* allocation row references a consumers row of the committed store.
C29_ConsumerUpsertedAgain ==
    /\ [][\A c \in Claimants :
            (pc[c] = "write" /\ pc'[c] = "cas")
            => consumer_id'[c] \in ConsumerIds(txn'[c].consumer_rows)
                                     \cup ConsumerIds(txn[c].snapshot)]_vars
    /\ [](\A a \in allocations : a.consumer_id \in ConsumerIds(consumers))

\* --------------------------------------- properties of the lock order
\* the provider whose generation claimant c updates next
NextUpdate(c) == txn[c].provider_map[txn[c].done + 1].id

\* c's next generation update waits for a row lock that d holds
WaitsFor(c, d) ==
    /\ pc[c] = "cas"
    /\ txn[c].done < Len(txn[c].provider_map)
    /\ NextUpdate(c) \in locked(d)

\* C30: two concurrent executes never take their generation updates in
\* orders that leave each of them waiting for a row lock the other holds.
C30_NoMutualWait ==
    \A c \in Claimants : \A d \in Claimants \ {c} :
        ~(WaitsFor(c, d) /\ WaitsFor(d, c))

\* ------------------------------- properties of planning against execution
\* the amounts a resource constraint or an allocation item can name
Amounts == 1..(MaxAmount + 1)

\* the planner's capacity query returns provider p for `amount` of the
\* resource type in claimant c's window, with no exclusion and no row limit
PlannerAccepts(c, p, resource_type, amount) ==
    \E rows \in find_providers_with_resource(
                   request[c].acquire_time, request[c].release_time,
                   ResourceConstraint(resource_type, amount, amount, NoConstraint),
                   {}, UNLIMITED) : p \in rows

\* Phase 1 passes a claim in claimant c's window whose one item is `amount`
\* of the resource type on provider p
ExecutorAccepts(c, p, resource_type, amount) ==
    check_provider_capacity(
        [acquire_time |-> request[c].acquire_time,
         release_time |-> request[c].release_time,
         allocation_items |-> <<[provider |-> p, resource_type |-> resource_type,
                                 used |-> amount]>>,
         allocation_item_to_request_groups |-> <<>>]) = "ok"

\* C31: when nothing else writes to the store, execute of the claim the
\* planner returned raises no Phase 1 failure, and on every store state the
\* capacity query accepts (provider, resource type, amount) exactly when
\* Phase 1 accepts an item of that provider, resource type and amount.
C31_PlannerAgreesWithPhase1 ==
    \A c \in Claimants :
        /\ pc[c] = "planned" => check_provider_capacity(Claim(c)) = "ok"
        /\ pc[c] = "failed" => txn[c].error \notin Phase1Failures
        /\ pc[c] # "idle" =>
              \A p \in Providers, resource_type \in DOMAIN resource_types,
                 amount \in Amounts :
                  PlannerAccepts(c, p, resource_type, amount)
                    <=> ExecutorAccepts(c, p, resource_type, amount)

\* Phase 1 has passed a claim with an item on a provider and resource type
\* that already carry committed usage
C31_Witness ==
    \E c \in Claimants :
        /\ pc[c] = "write"
        /\ \E i \in 1..Len(plan[c].alloc_items) :
              total_used(request[c].acquire_time, request[c].release_time,
                         plan[c].alloc_items[i].provider,
                         rt_id_from_code(plan[c].alloc_items[i].resource_type)) > 0

\* ------------------------------------------- properties of an empty claim
\* C32: every committed allocation row has an allocation item row of its
\* own, and no step of an execute whose claim has no items changes the store.
C32_EmptyClaimWritesNothing ==
    /\ [](\A a \in allocations :
            \E i \in 1..Len(allocation_items) :
                allocation_items[i].allocation_id = a.id)
    /\ [][\A c \in Claimants :
            (pc[c] \in {"planned", "write", "cas"} /\ pc'[c] # pc[c]
             /\ plan[c].alloc_items = <<>>)
            => store' = store]_vars

\* ------------------------------------ properties of the consumer's rows
\* the uuids under which the claimants execute
ConsumerUuids == {request[c].consumer.uuid : c \in Claimants}

\* C33: the committed store holds at most one consumers row and at most one
\* object_names row for a consumer's uuid, and every committed allocation
\* references a committed consumers row.
C33_OneConsumerRow ==
    /\ \A u \in ConsumerUuids :
          /\ Cardinality({i \in 1..Len(consumers) : consumers[i].uuid = u}) <= 1
          /\ Cardinality({i \in 1..Len(object_names) : object_names[i].uuid = u}) <= 1
    /\ \A a \in allocations :
          \E i \in 1..Len(consumers) : consumers[i].id = a.consumer_id

\* ---------------------------------------- properties of the row limits
\* the providers that meet every capability constraint of request group g
\* and that the capacity query of each of its resource constraints, without
\* exclusion or row limit, returns
FeasibleProviders(c, g) ==
    {p \in provider_rows :
        /\ \A cc \in ConstraintsOf(c, g) : Meets(p, cc)
        /\ \A k \in 1..Len(Groups(c)[g + 1].resource_constraints) :
              p \in UNION find_providers_with_resource(
                            request[c].acquire_time, request[c].release_time,
                            Groups(c)[g + 1].resource_constraints[k], {}, UNLIMITED)}

\* C34: a request group that some provider can serve yields items, whatever
\* rows the limited queries returned.
C34_LimitsKeepFeasible ==
    \A c \in Claimants : \A g \in GroupIndexes(c) :
        (pc[c] # "idle" /\ GroupDone(c, g) /\ FeasibleProviders(c, g) # {})
        => ItemsOfGroup(c, g) # {}

\* --------------------------------------- properties of the MatchContext
\* C35: on a MatchContext reached by any calls of match_or and match_and, the
\* next call sets matches to its argument when it is the first, and otherwise
\* to the union (match_or) or the intersection (match_and) of matches and the
\* argument; it leaves started_filtering set; it returns true exactly when
\* matches is then non-empty; and no call unsets started_filtering.
C35_MatchContext ==
    /\ [](\A c \in Claimants : \A new_matches \in SUBSET MatchKeys :
            LET mctx == plan[c].mctx
                first == ~mctx.started_filtering
                ored == IF first THEN new_matches ELSE mctx.matches \cup new_matches
                anded == IF first THEN new_matches ELSE mctx.matches \cap new_matches
            IN  /\ match_or(mctx, new_matches).matches = ored
                /\ match_and(mctx, new_matches).matches = anded
                /\ match_or(mctx, new_matches).started_filtering
                /\ match_and(mctx, new_matches).started_filtering
                /\ match_returns(match_or(mctx, new_matches), new_matches)
                     <=> ored # {}
                /\ match_returns(match_and(mctx, new_matches), new_matches)
                     <=> anded # {})
    /\ [][\A c \in Claimants :
            plan[c].mctx.started_filtering => plan'[c].mctx.started_filtering]_vars

\* one MatchContext has been narrowed to a single provider and another, after
\* matches were found, to none
C35_Witness ==
    \E c \in Claimants, d \in Claimants :
        /\ plan[c].mctx.started_filtering /\ Cardinality(plan[c].mctx.matches) = 1
        /\ plan[d].mctx.started_filtering /\ plan[d].mctx.matches = {}
        /\ pc[c] = "matching" /\ pc[d] = "matching"

\* ----------------------------------------- properties of the forbid query
\* the providers that carry a capability of the list
CarryingSome(caps) ==
    {p \in provider_rows : \E k \in 1..Len(caps) : Carries(p, caps[k])}

\* C36: whatever rows the limited queries return, the result of a capability
\* constraint with a forbid list matches no provider that carries a forbidden
\* capability, and the providers it holds for exclusion are all the
\* providers that carry one, however many they are.
C36_ForbidExhaustive ==
    \A c \in Claimants :
        pc[c] = "caps" =>
            LET cc == Group(c).capability_constraints[plan[c].index]
                carrying == CarryingSome(cc.forbid_caps)
            IN  (Len(cc.forbid_caps) > 0 /\ capability_constraint_error(cc) = "ok")
                => \A res \in providers_matching_capability_constraint(cc) :
                      /\ res.matches \cap carrying = {}
                      /\ res.excludes \in {{}, carrying}
                      /\ (Len(cc.require_caps) = 0 /\ Len(cc.any_caps) = 0
                          /\ carrying # {}) => res.excludes = carrying

\* the planner has ended a group whose constraint requires a capability and
\* forbids one that more providers carry than a limited query returns: the
\* providers that carry the required one were all subtracted
C36_Witness ==
    \E c \in Claimants :
        LET cc == Groups(c)[1].capability_constraints[1]
        IN  /\ pc[c] = "planned"
            /\ Len(cc.require_caps) > 0 /\ Len(cc.forbid_caps) > 0
            /\ CarryingSome(cc.require_caps) # {}
            /\ Cardinality(CarryingSome(cc.forbid_caps)) > DefaultLimit
            /\ plan[c].alloc_items = <<>>

\* ------------------------------- properties of the order of operations
\* how far claimant c's claim has come: three stages for each request group
\* (capability pass, resource pass, selection), then Phase 1, the writes,
\* the generation updates and the end of execute
Stage(c) ==
    LET g == plan[c].group_index
        planned == 3 * Len(Groups(c))
    IN  CASE pc[c] = "caps" -> 3 * g
          [] pc[c] = "resources" -> 3 * g + 1
          [] pc[c] = "select" -> 3 * g + 2
          [] pc[c] = "planned" -> planned
          [] pc[c] = "write" -> planned + 1
          [] pc[c] = "cas" -> planned + 2
          [] OTHER -> planned + 3

\* C37: a claim's operations come in one order. Inside a group the capability
\* queries come before the capacity queries, and the groups in turn; Phase 1
\* comes after the planning of the last group; Phase 1 has read the providers'
\* generations, and nothing is written, when the writes begin; the
\* consumer, allocation and item rows are written before the first generation
\* update; and the store changes at the commit, after which the claim takes
\* no step.
C37_StrictOrder ==
    /\ [](\A c \in Claimants :
            /\ pc[c] \in {"caps", "resources", "select", "planned", "plan_error"}
                 => txn[c] = NoTxn
            /\ pc[c] = "planned" => plan[c].group_index = Len(Groups(c))
            /\ pc[c] = "write"
                 => /\ txn[c].alloc_rows = <<>> /\ txn[c].item_rows = <<>>
                    /\ txn[c].consumer_rows = <<>> /\ txn[c].object_rows = <<>>
                    /\ txn[c].done = 0
                    /\ \A i \in 1..Len(plan[c].alloc_items) :
                         \E k \in 1..Len(txn[c].provider_map) :
                            txn[c].provider_map[k].id = plan[c].alloc_items[i].provider
            /\ pc[c] = "cas"
                 => /\ Len(txn[c].alloc_rows) = 1
                    /\ Len(txn[c].item_rows) >= Len(plan[c].alloc_items)
                    /\ txn[c].item_rows # <<>>
            /\ txn[c].done > 0 => pc[c] \in {"cas", "committed", "failed"})
    /\ [][\A c \in Claimants :
            (pc'[c] # pc[c] \/ plan'[c] # plan[c] \/ txn'[c] # txn[c])
            => \/ Stage(c)' > Stage(c)
               \/ /\ Stage(c)' = Stage(c)
                  /\ pc'[c] = pc[c]
                  /\ \/ /\ pc[c] \in {"caps", "resources"}
                        /\ plan'[c].index = plan[c].index + 1
                     \/ /\ pc[c] = "cas"
                        /\ txn'[c].done = txn[c].done + 1]_vars
    /\ [][store' # store
            => \/ admin_ops' # admin_ops
               \/ \E c \in Claimants : pc[c] = "cas" /\ pc'[c] = "committed"]_vars

\* a claim of two request groups, placed on two providers, has gone through
\* both generation updates and committed
C37_Witness ==
    \E c \in Claimants :
        /\ pc[c] = "committed"
        /\ Len(Groups(c)) = 2
        /\ txn[c].done = 2
        /\ Len(txn[c].item_rows) = 2

\* ------------------------------------ properties of what a claim changes
\* the step is one of claimant c's
StepOf(c) == pc'[c] # pc[c] \/ plan'[c] # plan[c] \/ txn'[c] # txn[c]

\* C38: a step of the planner leaves the store as it is; a step of execute
\* leaves the inventories and the provider capabilities as they are, keeps
\* every committed allocation, allocation item, consumer and object name
\* row as it was, and changes no generation but that of a provider of one of
\* the claim's items.
C38_FrameOfAClaim ==
    [][\A c \in Claimants :
         StepOf(c)
         => /\ pc[c] \in {"config", "caps", "resources", "select"}
                 => (store' = store /\ next_id' = next_id)
            /\ inventories' = inventories
            /\ provider_capabilities' = provider_capabilities
            /\ allocations \subseteq allocations'
            /\ Len(allocation_items') >= Len(allocation_items)
            /\ \A i \in 1..Len(allocation_items) :
                  allocation_items'[i] = allocation_items[i]
            /\ Len(consumers') >= Len(consumers)
            /\ \A i \in 1..Len(consumers) : consumers'[i] = consumers[i]
            /\ Len(object_names') >= Len(object_names)
            /\ \A i \in 1..Len(object_names) : object_names'[i] = object_names[i]
            /\ DOMAIN generation' = DOMAIN generation
            /\ \A p \in provider_rows :
                  generation'[p] # generation[p] => p \in ClaimProviders(c)]_vars

\* an execute has committed a claim whose items are all on one provider
\* while another provider holds an inventory of the same resource type; the
\* generation of the other provider is the one it started with
C38_Witness ==
    \E c \in Claimants : \E p \in provider_rows \ ClaimProviders(c) :
        /\ pc[c] = "committed"
        /\ ClaimProviders(c) # {}
        /\ \E inv \in inventories :
              /\ inv.provider_id = p
              /\ \E i \in 1..Len(plan[c].alloc_items) :
                    inv.resource_type_id
                      = rt_id_from_code(plan[c].alloc_items[i].resource_type)
        /\ generation[p] = 1


\* C39: each catalog table is queried at most once in a process, also when two
\* tasks make their first lookup at the same time
C39_QueriedAtMostOnce ==
    \A tbl \in CatalogTables : lookup.queries[tbl] <= 1

\* C40: the selection step is reached only with a non-empty matches set, so no
\* request group makes _process_claim_request_group fail by taking the first
\* of an empty set
C40_SelectionNeverEmpty ==
    \A c \in Claimants :
       /\ pc[c] = "select" => plan[c].mctx.matches # {}
       /\ plan[c].error # "StopIteration"

====
